---- MODULE Spec2Model ----
(***************************************************************************)
(* Provably fair Plinko: the commit/reveal seed protocol, the seeded       *)
(* xorshift stream, the peg-map generator, the path simulator and the      *)
(* payout rule of src/lib/prng.ts, and the round lifecycle kept by the     *)
(* route handlers under src/app/api.                                       *)
(*                                                                         *)
(* Representation of JavaScript values:                                    *)
(*  - a string is the sequence of its character codes (ASCII);             *)
(*  - a number that holds a 32-bit quantity is a pair <<hi, lo>> standing  *)
(*    for hi * 65536 + lo, with lo in 0..65535; hi is in -32768..32767     *)
(*    for the result of a signed operator (<<, ^) and in 0..65535 for the  *)
(*    result of an unsigned one (>>>);                                     *)
(*  - a random draw state / 2^32 is kept as its numerator, the pair;       *)
(*  - a peg bias is kept in millionths (the code rounds it to 6 decimals), *)
(*    a payout multiplier in hundredths (the code rounds it to 2);         *)
(*  - NaN and undefined are two reserved numbers, NaN and Undefined.       *)
(* Floating point products are computed exactly; the doubles of the code  *)
(* differ from the exact value by less than 1e-15 relative, far below the  *)
(* 2^-26 spacing of the quantities that are rounded or compared.           *)
(* A request body or query is a record that has the fields present in it.  *)
(***************************************************************************)
EXTENDS Integers, Sequences, FiniteSets, TLC

VARIABLES
    rounds,     \* the round table of the database: id -> row
    handlers,   \* the route handlers suspended between two database calls
    sent,       \* the latest HTTP response
    started,    \* history: id -> the number of start updates applied to the row
    run,        \* calls of playRound in progress: invocation -> frame
    call        \* the latest call of a library function, with its result

vars == <<rounds, handlers, sent, started, run, call>>

\* bounds of the model: the rounds committed, and the handlers suspended at
\* the same time
MaxRounds == 1
MaxInFlight == 2

\* the largest bin count a payout table is asked for
MaxBins == 14

\* the most calls of next() made on one generator
MaxDraws == 24

\* two numbers that no computation of the model produces
Undefined == -(2 ^ 30)
NaN == Undefined - 1
Null == NaN - 1
IsNumber(v) == v \notin {Undefined, NaN, Null}
\* NaN where a 32-bit quantity is expected
NaNWord == <<NaN, 0>>

Half == 2 ^ 16

Min(a, b) == IF a < b THEN a ELSE b
Max(a, b) == IF a > b THEN a ELSE b
Abs(a) == IF a < 0 THEN -a ELSE a

(***************************************************************************)
(* 32-bit operators of JavaScript on pairs <<hi, lo>>.                     *)
(***************************************************************************)
RECURSIVE Xor16(_, _, _)
\* bitwise exclusive or of two numbers of n bits
Xor16(a, b, n) ==
    IF n = 0 THEN 0
    ELSE ((a + b) % 2) + 2 * Xor16(a \div 2, b \div 2, n - 1)

\* ToInt32: the same 32 bits read as a signed number
ToInt32(w) == <<IF w[1] % Half >= 32768 THEN (w[1] % Half) - Half ELSE w[1] % Half, w[2]>>
\* ToUint32: the same 32 bits read as an unsigned number
ToUint32(w) == <<w[1] % Half, w[2]>>

\* a << k for 0 < k < 16: ToInt32(a) shifted left, the result a signed 32-bit number
ShiftLeft(w, k) ==
    LET p == 2 ^ k
        q == 2 ^ (16 - k)
        hi == ((w[1] % q) * p + (w[2] \div q)) % Half
        lo == (w[2] % q) * p
    IN ToInt32(<<hi, lo>>)

\* a >>> k for 0 <= k < 32: ToUint32(a) shifted right with zero fill, unsigned
ShiftRightUnsigned(w, k) ==
    LET u == ToUint32(w)
    IN IF k = 0 THEN u
       ELSE IF k >= 16 THEN <<0, u[1] \div (2 ^ (k - 16))>>
       ELSE <<u[1] \div (2 ^ k), ((u[1] % (2 ^ k)) * (2 ^ (16 - k)) + (u[2] \div (2 ^ k))) % Half>>

\* a ^ b: both read by ToInt32, the result a signed 32-bit number
BitXor(a, b) ==
    ToInt32(<<Xor16(a[1] % Half, b[1] % Half, 16), Xor16(a[2], b[2], 16)>>)

(***************************************************************************)
(* Strings.                                                                *)
(***************************************************************************)
Colon == <<58>>

\* String.prototype.substring(from, to) for 0 <= from <= to
Substring(s, from, to) == SubSeq(s, from + 1, Min(to, Len(s)))

\* the value of a character as a digit of radix 16, or -1
HexDigitValue(c) ==
    IF c >= 48 /\ c <= 57 THEN c - 48
    ELSE IF c >= 97 /\ c <= 102 THEN c - 87
    ELSE IF c >= 65 /\ c <= 70 THEN c - 55
    ELSE -1

RECURSIVE HexPrefixLen(_)
\* the length of the longest prefix of s made of hexadecimal digits
HexPrefixLen(s) ==
    IF s = <<>> \/ HexDigitValue(Head(s)) < 0 THEN 0 ELSE 1 + HexPrefixLen(Tail(s))

RECURSIVE HexValue(_, _)
\* the digits ds read most significant first, on top of the value acc
HexValue(ds, acc) ==
    IF ds = <<>> THEN acc ELSE HexValue(Tail(ds), acc * 16 + HexDigitValue(Head(ds)))

\* parseInt(s, 16) for a string of at most 8 characters without sign, blanks
\* or 0x prefix: the leading hexadecimal digits, NaN when there are none
ParseIntHex(s) ==
    LET n == HexPrefixLen(s)
        ds == SubSeq(s, 1, n)
    IN IF n = 0 THEN NaNWord
       ELSE IF n <= 4 THEN <<0, HexValue(ds, 0)>>
       ELSE <<HexValue(SubSeq(ds, 1, n - 4), 0), HexValue(SubSeq(ds, n - 3, n), 0)>>

HexChar(d) == IF d < 10 THEN 48 + d ELSE 87 + d

RECURSIVE DecimalDigits(_)
\* the decimal digits of n >= 0
DecimalDigits(n) ==
    IF n < 10 THEN <<48 + n>> ELSE Append(DecimalDigits(n \div 10), 48 + (n % 10))

\* String(n) of an integer
IntToString(n) == IF n < 0 THEN <<45>> \o DecimalDigits(-n) ELSE DecimalDigits(n)

RECURSIVE DecimalPrefix(_, _)
\* the value of the leading decimal digits of s on top of acc, and how many
DecimalPrefix(s, acc) ==
    IF s = <<>> \/ s[1] < 48 \/ s[1] > 57 \/ acc[2] >= 9 THEN acc
    ELSE DecimalPrefix(Tail(s), <<acc[1] * 10 + (s[1] - 48), acc[2] + 1>>)

\* parseInt(s) of a string without leading blanks or 0x prefix and of fewer
\* than 10 digits: an optional sign and the leading digits, NaN without any
ParseInt(s) ==
    LET neg == s # <<>> /\ s[1] = 45
        body == IF s # <<>> /\ s[1] \in {43, 45} THEN Tail(s) ELSE s
        r == DecimalPrefix(body, <<0, 0>>)
    IN IF r[2] = 0 THEN NaN ELSE IF neg THEN -r[1] ELSE r[1]
\* "b2a5f3f32a4d9c6ee7a8c1d33456677890abcdeffedcba0987654321ffeeddcc"
ServerSeedA ==
    <<98, 50, 97, 53, 102, 51, 102, 51, 50, 97, 52, 100, 57, 99, 54, 101,
    101, 55, 97, 56, 99, 49, 100, 51, 51, 52, 53, 54, 54, 55, 55, 56,
    57, 48, 97, 98, 99, 100, 101, 102, 102, 101, 100, 99, 98, 97, 48, 57,
    56, 55, 54, 53, 52, 51, 50, 49, 102, 102, 101, 101, 100, 100, 99, 99>>

\* "5b84bd6ba2298a411e085bbe4b4e4e968510c5df7e61c21bd69ac0c8b906d898"
ServerSeedB ==
    <<53, 98, 56, 52, 98, 100, 54, 98, 97, 50, 50, 57, 56, 97, 52, 49,
    49, 101, 48, 56, 53, 98, 98, 101, 52, 98, 52, 101, 52, 101, 57, 54,
    56, 53, 49, 48, 99, 53, 100, 102, 55, 101, 54, 49, 99, 50, 49, 98,
    100, 54, 57, 97, 99, 48, 99, 56, 98, 57, 48, 54, 100, 56, 57, 56>>

\* "42"
NonceA ==
    <<52, 50>>

\* "1730793600000k3j9x2"
NonceB ==
    <<49, 55, 51, 48, 55, 57, 51, 54, 48, 48, 48, 48, 48, 107, 51, 106,
    57, 120, 50>>

\* "candidate-hello"
ClientSeedA ==
    <<99, 97, 110, 100, 105, 100, 97, 116, 101, 45, 104, 101, 108, 108, 111>>

\* "x"
ClientSeedB ==
    <<120>>

\* Known answers of SHA-256 (hex) for the messages the model forms from the seeds above.
KnownDigests ==
  {
    \* bb9acdc67f3f18f3345236a01f0e5072596657a9005c7d8a22cff061451a6b34
    <<ServerSeedA \o Colon \o NonceA,
      <<98, 98, 57, 97, 99, 100, 99, 54, 55, 102, 51, 102, 49, 56, 102, 51,
        51, 52, 53, 50, 51, 54, 97, 48, 49, 102, 48, 101, 53, 48, 55, 50,
        53, 57, 54, 54, 53, 55, 97, 57, 48, 48, 53, 99, 55, 100, 56, 97,
        50, 50, 99, 102, 102, 48, 54, 49, 52, 53, 49, 97, 54, 98, 51, 52>>>>,
    \* fdcd033c226b968813e9dcd1351a879a988148b7898fda5c42bae8ad2715d167
    <<ServerSeedA \o Colon \o NonceB,
      <<102, 100, 99, 100, 48, 51, 51, 99, 50, 50, 54, 98, 57, 54, 56, 56,
        49, 51, 101, 57, 100, 99, 100, 49, 51, 53, 49, 97, 56, 55, 57, 97,
        57, 56, 56, 49, 52, 56, 98, 55, 56, 57, 56, 102, 100, 97, 53, 99,
        52, 50, 98, 97, 101, 56, 97, 100, 50, 55, 49, 53, 100, 49, 54, 55>>>>,
    \* 527f352864db567187860b35350b35f1bc743b3ab13471bff77ff4fa97eda81c
    <<ServerSeedB \o Colon \o NonceA,
      <<53, 50, 55, 102, 51, 53, 50, 56, 54, 52, 100, 98, 53, 54, 55, 49,
        56, 55, 56, 54, 48, 98, 51, 53, 51, 53, 48, 98, 51, 53, 102, 49,
        98, 99, 55, 52, 51, 98, 51, 97, 98, 49, 51, 52, 55, 49, 98, 102,
        102, 55, 55, 102, 102, 52, 102, 97, 57, 55, 101, 100, 97, 56, 49, 99>>>>,
    \* a2324744916ef0e131cb0274513a26b28b22dabe9891144e1c0acc8362c0c92f
    <<ServerSeedB \o Colon \o NonceB,
      <<97, 50, 51, 50, 52, 55, 52, 52, 57, 49, 54, 101, 102, 48, 101, 49,
        51, 49, 99, 98, 48, 50, 55, 52, 53, 49, 51, 97, 50, 54, 98, 50,
        56, 98, 50, 50, 100, 97, 98, 101, 57, 56, 57, 49, 49, 52, 52, 101,
        49, 99, 48, 97, 99, 99, 56, 51, 54, 50, 99, 48, 99, 57, 50, 102>>>>,
    \* e1dddf77de27d395ea2be2ed49aa2a59bd6bf12ee8d350c16c008abd406c07e0
    <<ServerSeedA \o Colon \o ClientSeedA \o Colon \o NonceA,
      <<101, 49, 100, 100, 100, 102, 55, 55, 100, 101, 50, 55, 100, 51, 57, 53,
        101, 97, 50, 98, 101, 50, 101, 100, 52, 57, 97, 97, 50, 97, 53, 57,
        98, 100, 54, 98, 102, 49, 50, 101, 101, 56, 100, 51, 53, 48, 99, 49,
        54, 99, 48, 48, 56, 97, 98, 100, 52, 48, 54, 99, 48, 55, 101, 48>>>>,
    \* 4cc57e9eeb467236f7533c3dac49b2d5ed8a4b24b7bf1d16e23f72c63509b4ec
    <<ServerSeedA \o Colon \o ClientSeedA \o Colon \o NonceB,
      <<52, 99, 99, 53, 55, 101, 57, 101, 101, 98, 52, 54, 55, 50, 51, 54,
        102, 55, 53, 51, 51, 99, 51, 100, 97, 99, 52, 57, 98, 50, 100, 53,
        101, 100, 56, 97, 52, 98, 50, 52, 98, 55, 98, 102, 49, 100, 49, 54,
        101, 50, 51, 102, 55, 50, 99, 54, 51, 53, 48, 57, 98, 52, 101, 99>>>>,
    \* 504756b29d89c10816ed938e52375e4ebb08986dd25f5c071e59a0ef6c936b8e
    <<ServerSeedA \o Colon \o ClientSeedB \o Colon \o NonceA,
      <<53, 48, 52, 55, 53, 54, 98, 50, 57, 100, 56, 57, 99, 49, 48, 56,
        49, 54, 101, 100, 57, 51, 56, 101, 53, 50, 51, 55, 53, 101, 52, 101,
        98, 98, 48, 56, 57, 56, 54, 100, 100, 50, 53, 102, 53, 99, 48, 55,
        49, 101, 53, 57, 97, 48, 101, 102, 54, 99, 57, 51, 54, 98, 56, 101>>>>,
    \* f42cb6159cd5fccffb5d5a05830cf14194e2cb8c7530f0905d96492d8bff80a4
    <<ServerSeedA \o Colon \o ClientSeedB \o Colon \o NonceB,
      <<102, 52, 50, 99, 98, 54, 49, 53, 57, 99, 100, 53, 102, 99, 99, 102,
        102, 98, 53, 100, 53, 97, 48, 53, 56, 51, 48, 99, 102, 49, 52, 49,
        57, 52, 101, 50, 99, 98, 56, 99, 55, 53, 51, 48, 102, 48, 57, 48,
        53, 100, 57, 54, 52, 57, 50, 100, 56, 98, 102, 102, 56, 48, 97, 52>>>>,
    \* 343c39d5cbec7cc4d43445d7b4b4eb3b37db7fc292933cb21ef0798855d2d28a
    <<ServerSeedB \o Colon \o ClientSeedA \o Colon \o NonceA,
      <<51, 52, 51, 99, 51, 57, 100, 53, 99, 98, 101, 99, 55, 99, 99, 52,
        100, 52, 51, 52, 52, 53, 100, 55, 98, 52, 98, 52, 101, 98, 51, 98,
        51, 55, 100, 98, 55, 102, 99, 50, 57, 50, 57, 51, 51, 99, 98, 50,
        49, 101, 102, 48, 55, 57, 56, 56, 53, 53, 100, 50, 100, 50, 56, 97>>>>,
    \* f2f293c77cd1bf3f8309c9e7f2f0164aa2ccd4273aa3945d41d46fcdb46f2ea6
    <<ServerSeedB \o Colon \o ClientSeedA \o Colon \o NonceB,
      <<102, 50, 102, 50, 57, 51, 99, 55, 55, 99, 100, 49, 98, 102, 51, 102,
        56, 51, 48, 57, 99, 57, 101, 55, 102, 50, 102, 48, 49, 54, 52, 97,
        97, 50, 99, 99, 100, 52, 50, 55, 51, 97, 97, 51, 57, 52, 53, 100,
        52, 49, 100, 52, 54, 102, 99, 100, 98, 52, 54, 102, 50, 101, 97, 54>>>>,
    \* 735960f83f7afdcdd2bcc0d3d71c1e8e4d9c8913fa41804a14c5b7065f724b53
    <<ServerSeedB \o Colon \o ClientSeedB \o Colon \o NonceA,
      <<55, 51, 53, 57, 54, 48, 102, 56, 51, 102, 55, 97, 102, 100, 99, 100,
        100, 50, 98, 99, 99, 48, 100, 51, 100, 55, 49, 99, 49, 101, 56, 101,
        52, 100, 57, 99, 56, 57, 49, 51, 102, 97, 52, 49, 56, 48, 52, 97,
        49, 52, 99, 53, 98, 55, 48, 54, 53, 102, 55, 50, 52, 98, 53, 51>>>>,
    \* 991b2985b5ac44c259503721e601e5b67f0b57932ce3751e9fbadc640e42301f
    <<ServerSeedB \o Colon \o ClientSeedB \o Colon \o NonceB,
      <<57, 57, 49, 98, 50, 57, 56, 53, 98, 53, 97, 99, 52, 52, 99, 50,
        53, 57, 53, 48, 51, 55, 50, 49, 101, 54, 48, 49, 101, 53, 98, 54,
        55, 102, 48, 98, 53, 55, 57, 51, 50, 99, 101, 51, 55, 53, 49, 101,
        57, 102, 98, 97, 100, 99, 54, 52, 48, 101, 52, 50, 51, 48, 49, 102>>>>
  }

(***************************************************************************)
(* SHA-256 (crypto.createHash('sha256').update(m).digest('hex')).          *)
(* The digest is the known answer for the seed messages of this model;     *)
(* for any other message it is a stand-in digest, a checksum of the        *)
(* message spread over 64 hexadecimal characters, which keeps what the     *)
(* program uses of the digest of such a message: a deterministic function  *)
(* of the message text and nothing else.                                   *)
(***************************************************************************)
RECURSIVE Checksum(_, _, _)
\* the weighted sum of the characters from..to of m, by halves
Checksum(m, from, to) ==
    IF from > to THEN 0
    ELSE IF from = to THEN (m[from] * (1 + ((from * from + 7 * from) % 8191))) % 65521
    ELSE LET mid == (from + to) \div 2
         IN (Checksum(m, from, mid) + Checksum(m, mid + 1, to)) % 65521

StandInDigest(m) ==
    LET h == (Checksum(m, 1, Len(m)) + Len(m)) % 65521
    IN [i \in 1..64 |-> HexChar(((h + i * ((h % 251) + 1)) \div (1 + (i % 5))) % 16)]

SHA256Hex(m) ==
    IF \E e \in KnownDigests : e[1] = m
    THEN (CHOOSE e \in KnownDigests : e[1] = m)[2]
    ELSE StandInDigest(m)

(***************************************************************************)
(* XORShift32 (src/lib/prng.ts:4-33): the object is its state.             *)
(***************************************************************************)
\* a constructor without the test for zero
XORShift32NewUnchecked(seed) ==
    IF seed = NaNWord THEN <<0, 0>> ELSE ShiftRightUnsigned(seed, 0)

\* constructor(seed): this.state = seed >>> 0, and 1 instead of 0
XORShift32New(seed) ==
    LET s == IF seed = NaNWord THEN <<0, 0>> ELSE ShiftRightUnsigned(seed, 0)
    IN IF s = <<0, 0>> THEN <<0, 1>> ELSE s

\* next() without the final >>> 0: the state stays a signed number
XORShift32NextSigned(state) ==
    LET s1 == BitXor(state, ShiftLeft(state, 13))
        s2 == BitXor(s1, ShiftRightUnsigned(s1, 17))
    IN BitXor(s2, ShiftLeft(s2, 5))

\* a generator whose right shift keeps the sign: s ^= s >> 17
XORShift32NextArithmeticShift(state) ==
    LET s1 == BitXor(state, ShiftLeft(state, 13))
        v == s1[1] \div 2
        s2 == BitXor(s1, <<IF v < 0 THEN -1 ELSE 0, v % 65536>>)
        s3 == BitXor(s2, ShiftLeft(s2, 5))
    IN ShiftRightUnsigned(s3, 0)

\* a generator whose shifts are 13, 17 and 15
XORShift32NextShift15(state) ==
    LET s1 == BitXor(state, ShiftLeft(state, 13))
        s2 == BitXor(s1, ShiftRightUnsigned(s1, 17))
        s3 == BitXor(s2, ShiftLeft(s2, 15))
    IN ShiftRightUnsigned(s3, 0)

\* next(): the new state; the value returned is state / 0x100000000, kept
\* as its numerator, which is the new state itself
XORShift32Next(state) ==
    LET s1 == BitXor(state, ShiftLeft(state, 13))
        s2 == BitXor(s1, ShiftRightUnsigned(s1, 17))
        s3 == BitXor(s2, ShiftLeft(s2, 5))
    IN ShiftRightUnsigned(s3, 0)

(***************************************************************************)
(* ProvablyFairProtocol (src/lib/prng.ts:39-98).                           *)
(***************************************************************************)
createCommitHash(serverSeed, nonce) == SHA256Hex(serverSeed \o Colon \o nonce)

\* a combined seed that hashes the nonce before the client seed
generateCombinedSeedNonceFirst(serverSeed, clientSeed, nonce) ==
    SHA256Hex(serverSeed \o Colon \o nonce \o Colon \o clientSeed)

generateCombinedSeed(serverSeed, clientSeed, nonce) ==
    SHA256Hex(serverSeed \o Colon \o clientSeed \o Colon \o nonce)

\* the first 4 bytes read least significant byte first
extractPRNGSeedLittleEndian(combinedSeed) ==
    LET w == ParseIntHex(Substring(combinedSeed, 0, 8))
    IN IF w = NaNWord THEN w
       ELSE <<(w[2] % 256) * 256 + (w[2] \div 256), (w[1] % 256) * 256 + (w[1] \div 256)>>

extractPRNGSeed(combinedSeed) == ParseIntHex(Substring(combinedSeed, 0, 8))

\* a comparison that accepts every prefix of the expected hash
verifyCommitPrefix(serverSeed, nonce, commitHash) ==
    LET expectedHash == createCommitHash(serverSeed, nonce)
    IN Substring(expectedHash, 0, Len(commitHash)) = commitHash

verifyCommit(serverSeed, nonce, commitHash) ==
    LET expectedHash == createCommitHash(serverSeed, nonce)
    IN expectedHash = commitHash

(***************************************************************************)
(* RoundRNG (src/lib/prng.ts:104-137): [prng, callCount].                  *)
(***************************************************************************)
RoundRNGNew(combinedSeed) ==
    [prng |-> XORShift32New(extractPRNGSeed(combinedSeed)), callCount |-> 0]

\* next(): the generator after the call; the value returned is .prng
RoundRNGNext(rng) ==
    [prng |-> XORShift32Next(rng.prng), callCount |-> rng.callCount + 1]

getCallCount(rng) == rng.callCount

\* a reset that rebuilds the stream and leaves the counter as it is
RoundRNGResetKeepsCount(rng, combinedSeed) ==
    [prng |-> XORShift32New(extractPRNGSeed(combinedSeed)), callCount |-> rng.callCount]

\* a reset that zeroes the counter and leaves the stream where it is
RoundRNGResetCountOnly(rng, combinedSeed) ==
    [prng |-> rng.prng, callCount |-> 0]

RoundRNGReset(rng, combinedSeed) ==
    [prng |-> XORShift32New(extractPRNGSeed(combinedSeed)), callCount |-> 0]

(***************************************************************************)
(* PlinkoEngine (src/lib/prng.ts:142-319).                                 *)
(***************************************************************************)
ROWS == 12
BINS == ROWS + 1

\* Math.round(x) of the quotient num / den, den > 0: the nearest integer,
\* a tie going up
RoundDiv(num, den) == (2 * num + den) \div (2 * den)

\* a bias of twice the spread: leftBias = 0.5 + (randomValue - 0.5) * 0.4
RoundedBiasWide(randomValue) ==
    LET a == randomValue[1] * 3125
        b == randomValue[2] * 3125
    IN 300000 + ((a + ((b + 16777216) \div 65536)) \div 512)

\* lines 186-189: leftBias = 0.5 + (randomValue - 0.5) * 0.2 and
\* Math.round(leftBias * 1000000), in millionths:
\* 400000 + round(state * 3125 / 2^26), on the two halves of state
RoundedBias(randomValue) ==
    LET a == randomValue[1] * 3125
        b == randomValue[2] * 3125
    IN 400000 + ((a + ((b + 33554432) \div 65536)) \div 1024)

\* line 221: adj = (dropColumn - Math.floor(ROWS / 2)) * 0.01, in millionths
DropAdjustment(dropColumn) ==
    IF ~IsNumber(dropColumn) THEN NaN
    ELSE (dropColumn - (ROWS \div 2)) * 10000

\* line 229: Math.max(0, Math.min(1, leftBias + adj)), in millionths
AdjustedBias(leftBias, adj) ==
    IF adj = NaN THEN NaN ELSE Max(0, Min(1000000, leftBias + adj))

\* line 235: randomValue < adjustedBias, that is
\* state / 2^32 < bias / 10^6, that is state * 15625 < bias * 2^26
LessThanBias(randomValue, adjustedBias) ==
    IF adjustedBias = NaN THEN FALSE
    ELSE randomValue[1] * 15625 + ((randomValue[2] * 15625) \div 65536) < adjustedBias * 1024

\* a table whose distance is i - center, without Math.abs
getPayoutMultipliersSigned(bins) ==
    LET center == bins \div 2
    IN [j \in 1..Max(bins, 0) |-> RoundDiv((5 + ((j - 1) - center) * 3) * 100, 10)]

\* getPayoutMultipliers(bins): entry i (from 0) is entry i + 1 here;
\* multiplier = 0.5 + distance * 0.3 = (5 + 3 * distance) / 10 and
\* Math.round(multiplier * 100), in hundredths
getPayoutMultipliers(bins) ==
    LET center == bins \div 2
    IN [j \in 1..Max(bins, 0) |-> RoundDiv((5 + Abs((j - 1) - center) * 3) * 100, 10)]

(***************************************************************************)
(* JSON.stringify of a peg map: nested arrays of numbers. A bias of k      *)
(* millionths prints as the shortest decimal of k / 10^6.                  *)
(***************************************************************************)
RECURSIVE Digits(_, _)
\* the n low decimal digits of k, most significant first
Digits(k, n) == IF n = 0 THEN <<>> ELSE Append(Digits(k \div 10, n - 1), 48 + (k % 10))

RECURSIVE StripZeros(_)
StripZeros(s) == IF s # <<>> /\ s[Len(s)] = 48 THEN StripZeros(SubSeq(s, 1, Len(s) - 1)) ELSE s

NumberToString(k) ==
    LET int == k \div 1000000
        frac == StripZeros(Digits(k % 1000000, 6))
    IN <<48 + int>> \o (IF frac = <<>> THEN <<>> ELSE <<46>> \o frac)

RECURSIVE JoinNumbers(_)
JoinNumbers(row) ==
    IF row = <<>> THEN <<>>
    ELSE IF Len(row) = 1 THEN NumberToString(row[1])
    ELSE NumberToString(row[1]) \o <<44>> \o JoinNumbers(Tail(row))

RECURSIVE JoinRows(_)
JoinRows(m) ==
    IF m = <<>> THEN <<>>
    ELSE IF Len(m) = 1 THEN <<91>> \o JoinNumbers(m[1]) \o <<93>>
    ELSE <<91>> \o JoinNumbers(m[1]) \o <<93, 44>> \o JoinRows(Tail(m))

JSONStringify(pegMap) == <<91>> \o JoinRows(pegMap) \o <<93>>

createPegMapHash(pegMap) == SHA256Hex(JSONStringify(pegMap))

(***************************************************************************)
(* playRound as the steps of one call. A frame is the call's local state:  *)
(* pc is "pegmap" inside the loops of generatePegMap, "drop" inside the    *)
(* loop of simulateDrop, "payout" after it, "returned" or "thrown" at the  *)
(* end. One step is one iteration of the innermost loop.                   *)
(***************************************************************************)
\* a call that mixes the stake into the combined seed
PlayRoundEnterStaked(serverSeed, clientSeed, nonce, dropColumn, rows, betCents) ==
    LET combinedSeed ==
            SHA256Hex(serverSeed \o Colon \o clientSeed \o Colon \o nonce
                          \o Colon \o IntToString(betCents))
    IN [pc |-> IF 0 < rows THEN "pegmap" ELSE "hash",
        serverSeed |-> serverSeed, clientSeed |-> clientSeed, nonce |-> nonce,
        dropColumn |-> dropColumn, rows |-> rows, betCents |-> betCents,
        combinedSeed |-> combinedSeed,
        rng |-> RoundRNGNew(combinedSeed),
        pegMap |-> <<>>, pegRow |-> <<>>, row |-> 0, peg |-> 0,
        pegMapHash |-> <<>>, path |-> <<>>, pos |-> 0,
        binIndex |-> Undefined, payoutMultiplier |-> Undefined,
        payoutCents |-> Undefined]

\* lines 285-294 and 177-183: the combined seed, the generator, the first
\* iteration about to start
PlayRoundEnter(serverSeed, clientSeed, nonce, dropColumn, rows, betCents) ==
    LET combinedSeed == SHA256Hex(serverSeed \o Colon \o clientSeed \o Colon \o nonce)
    IN [pc |-> IF 0 < rows THEN "pegmap" ELSE "hash",
        serverSeed |-> serverSeed, clientSeed |-> clientSeed, nonce |-> nonce,
        dropColumn |-> dropColumn, rows |-> rows, betCents |-> betCents,
        combinedSeed |-> combinedSeed,
        rng |-> RoundRNGNew(combinedSeed),
        pegMap |-> <<>>, pegRow |-> <<>>, row |-> 0, peg |-> 0,
        pegMapHash |-> <<>>, path |-> <<>>, pos |-> 0,
        binIndex |-> Undefined, payoutMultiplier |-> Undefined,
        payoutCents |-> Undefined]

\* a generator whose inner loop runs once more: peg <= row + 1
PegStepExtraPeg(f) ==
    LET rng == RoundRNGNext(f.rng)
        randomValue == rng.prng
        pegRow == Append(f.pegRow, RoundedBias(randomValue))
        rowDone == ~(f.peg + 1 <= f.row + 1)
        pegMap == IF rowDone THEN Append(f.pegMap, pegRow) ELSE f.pegMap
        row == IF rowDone THEN f.row + 1 ELSE f.row
    IN [f EXCEPT !.rng = rng,
                 !.pegMap = pegMap,
                 !.pegRow = IF rowDone THEN <<>> ELSE pegRow,
                 !.peg = IF rowDone THEN 0 ELSE f.peg + 1,
                 !.row = row,
                 !.pc = IF rowDone /\ ~(row < f.rows) THEN "hash" ELSE "pegmap"]

\* a generator that makes a square map: peg < rows in every row
PegStepSquare(f) ==
    LET rng == RoundRNGNext(f.rng)
        randomValue == rng.prng
        pegRow == Append(f.pegRow, RoundedBias(randomValue))
        rowDone == ~(f.peg + 1 < f.rows)
        pegMap == IF rowDone THEN Append(f.pegMap, pegRow) ELSE f.pegMap
        row == IF rowDone THEN f.row + 1 ELSE f.row
    IN [f EXCEPT !.rng = rng,
                 !.pegMap = pegMap,
                 !.pegRow = IF rowDone THEN <<>> ELSE pegRow,
                 !.peg = IF rowDone THEN 0 ELSE f.peg + 1,
                 !.row = row,
                 !.pc = IF rowDone /\ ~(row < f.rows) THEN "hash" ELSE "pegmap"]

\* lines 183-193: one peg, and the end of the row and of the map after it
PegStep(f) ==
    LET rng == RoundRNGNext(f.rng)
        randomValue == rng.prng
        pegRow == Append(f.pegRow, RoundedBias(randomValue))
        rowDone == ~(f.peg + 1 <= f.row)
        pegMap == IF rowDone THEN Append(f.pegMap, pegRow) ELSE f.pegMap
        row == IF rowDone THEN f.row + 1 ELSE f.row
    IN [f EXCEPT !.rng = rng,
                 !.pegMap = pegMap,
                 !.pegRow = IF rowDone THEN <<>> ELSE pegRow,
                 !.peg = IF rowDone THEN 0 ELSE f.peg + 1,
                 !.row = row,
                 !.pc = IF rowDone /\ ~(row < f.rows) THEN "hash" ELSE "pegmap"]

\* a walk that draws from a generator created anew from the combined seed
HashStepFreshRNG(f) ==
    [f EXCEPT !.pegMapHash = createPegMapHash(f.pegMap),
              !.rng = RoundRNGNew(f.combinedSeed),
              !.row = 0, !.peg = 0, !.pos = 0, !.path = <<>>,
              !.pc = IF 0 < ROWS THEN "drop" ELSE "payout"]

\* lines 295 and 217-223: the hash of the map, then simulateDrop begins
HashStep(f) ==
    [f EXCEPT !.pegMapHash = createPegMapHash(f.pegMap),
              !.row = 0, !.peg = 0, !.pos = 0, !.path = <<>>,
              !.pc = IF 0 < ROWS THEN "drop" ELSE "payout"]

\* a walk that records the column the ball leaves, not the one it enters
DropStepColumnBefore(f) ==
    IF f.row + 1 > Len(f.pegMap) THEN [f EXCEPT !.pc = "thrown"]
    ELSE
    LET pegIndex == Min(f.pos, f.row)
        leftBias == f.pegMap[f.row + 1][pegIndex + 1]
        adj == DropAdjustment(f.dropColumn)
        adjustedBias == AdjustedBias(leftBias, adj)
        rng == RoundRNGNext(f.rng)
        randomValue == rng.prng
        direction == IF LessThanBias(randomValue, adjustedBias) THEN "left" ELSE "right"
        pos == IF direction = "right" THEN f.pos + 1 ELSE f.pos
    IN [f EXCEPT !.rng = rng,
                 !.pos = pos,
                 !.path = Append(f.path,
                     [row |-> f.row, column |-> f.pos, direction |-> direction,
                      pegBias |-> leftBias, randomValue |-> randomValue,
                      adjustedBias |-> adjustedBias]),
                 !.row = f.row + 1,
                 !.pc = IF f.row + 1 < ROWS THEN "drop" ELSE "payout"]

\* a walk that takes one more draw whenever the ball goes right
DropStepDrawsAgain(f) ==
    IF f.row + 1 > Len(f.pegMap) THEN [f EXCEPT !.pc = "thrown"]
    ELSE
    LET pegIndex == Min(f.pos, f.row)
        leftBias == f.pegMap[f.row + 1][pegIndex + 1]
        adj == DropAdjustment(f.dropColumn)
        adjustedBias == AdjustedBias(leftBias, adj)
        rng == RoundRNGNext(f.rng)
        randomValue == rng.prng
        direction == IF LessThanBias(randomValue, adjustedBias) THEN "left" ELSE "right"
        pos == IF direction = "right" THEN f.pos + 1 ELSE f.pos
    IN [f EXCEPT !.rng = IF direction = "right" THEN RoundRNGNext(rng) ELSE rng,
                 !.pos = pos,
                 !.path = Append(f.path,
                     [row |-> f.row, column |-> pos, direction |-> direction,
                      pegBias |-> leftBias, randomValue |-> randomValue,
                      adjustedBias |-> adjustedBias]),
                 !.row = f.row + 1,
                 !.pc = IF f.row + 1 < ROWS THEN "drop" ELSE "payout"]

\* lines 224-250: one row of the walk. pegMap[row] of a map with fewer rows
\* is undefined and indexing it throws a TypeError
DropStep(f) ==
    IF f.row + 1 > Len(f.pegMap) THEN [f EXCEPT !.pc = "thrown"]
    ELSE
    LET pegIndex == Min(f.pos, f.row)
        leftBias == f.pegMap[f.row + 1][pegIndex + 1]
        adj == DropAdjustment(f.dropColumn)
        adjustedBias == AdjustedBias(leftBias, adj)
        rng == RoundRNGNext(f.rng)
        randomValue == rng.prng
        direction == IF LessThanBias(randomValue, adjustedBias) THEN "left" ELSE "right"
        pos == IF direction = "right" THEN f.pos + 1 ELSE f.pos
    IN [f EXCEPT !.rng = rng,
                 !.pos = pos,
                 !.path = Append(f.path,
                     [row |-> f.row, column |-> pos, direction |-> direction,
                      pegBias |-> leftBias, randomValue |-> randomValue,
                      adjustedBias |-> adjustedBias]),
                 !.row = f.row + 1,
                 !.pc = IF f.row + 1 < ROWS THEN "drop" ELSE "payout"]

\* a payout rounded to whole currency units: Math.round(x / 100) * 100
PayoutCentsWholeUnits(betCents, payoutMultiplier) ==
    IF ~IsNumber(betCents) \/ ~IsNumber(payoutMultiplier) THEN NaN
    ELSE RoundDiv(betCents * payoutMultiplier, 10000) * 100

\* Math.round(betCents * payoutMultiplier), the multiplier in hundredths
PayoutCents(betCents, payoutMultiplier) ==
    IF ~IsNumber(betCents) \/ ~IsNumber(payoutMultiplier) THEN NaN
    ELSE RoundDiv(betCents * payoutMultiplier, 100)

\* lines 300-306: a path of length 0 has no last step and reading its
\* column throws; an index past the table gives undefined
PayoutStep(f) ==
    IF f.path = <<>> THEN [f EXCEPT !.pc = "thrown"]
    ELSE
    LET binIndex == f.path[Len(f.path)].column
        multipliers == getPayoutMultipliers(BINS)
        payoutMultiplier ==
            IF binIndex + 1 \in DOMAIN multipliers THEN multipliers[binIndex + 1] ELSE Undefined
    IN [f EXCEPT !.binIndex = binIndex,
                 !.payoutMultiplier = payoutMultiplier,
                 !.payoutCents = PayoutCents(f.betCents, payoutMultiplier),
                 !.pc = "returned"]

EngineStep(f) ==
    CASE f.pc = "pegmap" -> PegStep(f)
      [] f.pc = "hash" -> HashStep(f)
      [] f.pc = "drop" -> DropStep(f)
      [] f.pc = "payout" -> PayoutStep(f)
      [] OTHER -> f

RECURSIVE RunToEnd(_)
RunToEnd(f) == IF f.pc \in {"returned", "thrown"} THEN f ELSE RunToEnd(EngineStep(f))

\* lines 308-317: the GameResult, or the exception
GameResult(f) ==
    IF f.pc = "thrown" THEN [thrown |-> "TypeError"]
    ELSE [pegMap |-> f.pegMap, pegMapHash |-> f.pegMapHash, path |-> f.path,
          binIndex |-> f.binIndex, payoutMultiplier |-> f.payoutMultiplier,
          payoutCents |-> f.payoutCents, rows |-> f.rows,
          combinedSeed |-> f.combinedSeed]

playRound(serverSeed, clientSeed, nonce, dropColumn, rows, betCents) ==
    GameResult(RunToEnd(PlayRoundEnter(serverSeed, clientSeed, nonce, dropColumn, rows, betCents)))

(***************************************************************************)
(* The round table and the route handlers (src/app/api).                   *)
(* prisma.round.create / findUnique / update are the database calls; a     *)
(* handler runs without interruption between two of them, and the calls   *)
(* of concurrent handlers reach the database in any order.                 *)
(***************************************************************************)
Field(r, name) == IF name \in DOMAIN r THEN r[name] ELSE Undefined
Has(r, name) == name \in DOMAIN r

\* JSON of a path: NaN is written as null
PathJson(path) ==
    [k \in DOMAIN path |->
        [path[k] EXCEPT !.adjustedBias = IF @ = NaN THEN Null ELSE @]]

\* the next id of the table
NextId == Cardinality(DOMAIN rounds) + 1

\* The values of playRound for the arguments the handlers call it with,
\* computed once: the function is pure, its value depends on nothing else
PlayedArgs ==
    {ServerSeedA, ServerSeedB} \X {ClientSeedA, ClientSeedB} \X {NonceA, NonceB}
        \X {0, 6, Undefined} \X {12} \X {100, 250}

PlayedRounds ==
    [a \in PlayedArgs |-> playRound(a[1], a[2], a[3], a[4], a[5], a[6])] @@ <<>>

PlayRoundValue(serverSeed, clientSeed, nonce, dropColumn, rows, betCents) ==
    LET a == <<serverSeed, clientSeed, nonce, dropColumn, rows, betCents>>
    IN IF a \in PlayedArgs THEN PlayedRounds[a]
       ELSE playRound(serverSeed, clientSeed, nonce, dropColumn, rows, betCents)

\* generateServerSeed() and generateNonce() (src/lib/prng.ts:43-54) draw on
\* Math.random() and Date.now(): the values a call can return
generateServerSeed == {ServerSeedA, ServerSeedB}
generateNonce == {NonceA, NonceB}

\* rounds/commit/route.ts:5-47
CommitPOST ==
    \E serverSeed \in generateServerSeed, nonce \in generateNonce :
    LET commitHex == createCommitHash(serverSeed, nonce)
        round == [id |-> NextId, status |-> "CREATED", nonce |-> nonce,
                  commitHex |-> commitHex, serverSeed |-> serverSeed,
                  clientSeed |-> <<>>, combinedSeed |-> <<>>, pegMapHash |-> <<>>,
                  rows |-> 12, dropColumn |-> 0, binIndex |-> 0,
                  payoutMultiplier |-> 0, betCents |-> 0, pathJson |-> <<>>,
                  revealedAt |-> "null"]
    IN /\ NextId <= MaxRounds
       /\ rounds' = (NextId :> round) @@ rounds
       /\ started' = (NextId :> 0) @@ started
       /\ sent' = [kind |-> "commit", status |-> 200, roundId |-> round.id,
                   commitHex |-> commitHex, nonce |-> nonce]
       /\ UNCHANGED <<handlers, run, call>>

\* rounds/[id]/start/route.ts:14-34, the answer to a body that is refused,
\* or "ok"
StartValidate(body) ==
    IF ~Has(body, "clientSeed") \/ body.clientSeed = <<>>
    THEN "Client seed is required and must be a string"
    ELSE IF ~IsNumber(Field(body, "betCents")) \/ body.betCents = 0 \/ body.betCents <= 0
    THEN "Bet amount must be positive"
    ELSE IF IsNumber(Field(body, "dropColumn")) /\ (body.dropColumn < 0 \/ body.dropColumn > 12)
    THEN "Drop column must be between 0 and 12"
    ELSE "ok"

Error(kind, status, message) == [kind |-> kind, status |-> status, error |-> message]

\* rounds/[id]/start/route.ts:11-53: the body is checked, findUnique reads
\* the row, and the handler answers or goes on to the update
StartFind(id, body) ==
    /\ UNCHANGED <<rounds, started, run, call>>
    /\ IF StartValidate(body) # "ok"
       THEN /\ sent' = Error("start", 400, StartValidate(body))
            /\ UNCHANGED handlers
       ELSE IF id \notin DOMAIN rounds
       THEN /\ sent' = Error("start", 404, "Round not found")
            /\ UNCHANGED handlers
       ELSE IF rounds[id].status # "CREATED"
       THEN /\ sent' = Error("start", 400, "Round has already been started")
            /\ UNCHANGED handlers
       ELSE /\ Cardinality(handlers) < MaxInFlight
            /\ handlers' = handlers \cup
                 {[kind |-> "start", id |-> id, body |-> body, round |-> rounds[id]]}
            /\ UNCHANGED sent

\* an update of the start route that also stores the client seed as the nonce
StartedRowRenonced(row, body, combinedSeed, gameResult) ==
    [row EXCEPT
        !.status = "STARTED",
        !.nonce = body.clientSeed,
        !.clientSeed = body.clientSeed,
        !.combinedSeed = combinedSeed,
        !.pegMapHash = gameResult.pegMapHash,
        !.dropColumn = IF Field(body, "dropColumn") = Undefined THEN @ ELSE body.dropColumn,
        !.binIndex = gameResult.binIndex,
        !.payoutMultiplier = gameResult.payoutMultiplier,
        !.betCents = body.betCents,
        !.pathJson = PathJson(gameResult.path)]

\* the row written by the update of the start route, lines 73-86: a field
\* of the data whose value is undefined is left as it is
StartedRow(row, body, combinedSeed, gameResult) ==
    [row EXCEPT
        !.status = "STARTED",
        !.clientSeed = body.clientSeed,
        !.combinedSeed = combinedSeed,
        !.pegMapHash = gameResult.pegMapHash,
        !.dropColumn = IF Field(body, "dropColumn") = Undefined THEN @ ELSE body.dropColumn,
        !.binIndex = gameResult.binIndex,
        !.payoutMultiplier = gameResult.payoutMultiplier,
        !.betCents = body.betCents,
        !.pathJson = PathJson(gameResult.path)]

\* rounds/[id]/start/route.ts:55-112: the round is played on the row read
\* by findUnique (the value of playRound is computed once, as in the code),
\* the update writes the row as it is by then, and the answer
\* is built from the row the update returns; an exception is answered 500
StartUpdate(h) ==
    /\ h \in handlers /\ h.kind = "start"
    /\ handlers' = handlers \ {h}
    /\ UNCHANGED <<run, call>>
    /\ \E gameResult \in {PlayRoundValue(h.round.serverSeed, h.body.clientSeed, h.round.nonce,
                                         Field(h.body, "dropColumn"), h.round.rows,
                                         h.body.betCents)} :
       LET round == h.round
           clientSeed == h.body.clientSeed
           betCents == h.body.betCents
           dropColumn == Field(h.body, "dropColumn")
           combinedSeed == generateCombinedSeed(round.serverSeed, clientSeed, round.nonce)
       IN IF Has(gameResult, "thrown")
          THEN /\ sent' = Error("start", 500, "Failed to start round")
               /\ UNCHANGED <<rounds, started>>
          ELSE \E updatedRound \in {StartedRow(rounds[h.id], h.body, combinedSeed, gameResult)} :
               /\ rounds' = [rounds EXCEPT ![h.id] = updatedRound]
               /\ started' = [started EXCEPT ![h.id] = @ + 1]
               /\ sent' = [kind |-> "start", status |-> 200,
                           roundId |-> updatedRound.id,
                           roundStatus |-> updatedRound.status,
                           nonce |-> updatedRound.nonce,
                           commitHex |-> updatedRound.commitHex,
                           clientSeed |-> updatedRound.clientSeed,
                           combinedSeed |-> updatedRound.combinedSeed,
                           pegMapHash |-> updatedRound.pegMapHash,
                           rows |-> updatedRound.rows,
                           dropColumn |-> updatedRound.dropColumn,
                           binIndex |-> updatedRound.binIndex,
                           payoutMultiplier |-> updatedRound.payoutMultiplier,
                           betCents |-> updatedRound.betCents,
                           pegMap |-> gameResult.pegMap,
                           path |-> PathJson(gameResult.path),
                           winAmount |-> PayoutCents(betCents, gameResult.payoutMultiplier)]

\* rounds/[id]/reveal/route.ts:10-28
RevealFind(id) ==
    /\ UNCHANGED <<rounds, started, run, call>>
    /\ IF id \notin DOMAIN rounds
       THEN /\ sent' = Error("reveal", 404, "Round not found")
            /\ UNCHANGED handlers
       ELSE IF rounds[id].status # "STARTED"
       THEN /\ sent' = Error("reveal", 400, "Round must be started before revealing")
            /\ UNCHANGED handlers
       ELSE /\ Cardinality(handlers) < MaxInFlight
            /\ handlers' = handlers \cup {[kind |-> "reveal", id |-> id, round |-> rounds[id]]}
            /\ UNCHANGED sent

\* an update of the reveal route that replaces the server seed
RevealedRowReseeded(row) ==
    [row EXCEPT !.status = "REVEALED", !.revealedAt = "date",
                !.serverSeed = IF @ = ServerSeedA THEN ServerSeedB ELSE ServerSeedA]

\* the row written by the update of the reveal route, lines 31-37
RevealedRow(row) == [row EXCEPT !.status = "REVEALED", !.revealedAt = "date"]

\* rounds/[id]/reveal/route.ts:30-56
RevealUpdate(h) ==
    LET updatedRound == RevealedRow(rounds[h.id])
        isValid == verifyCommit(updatedRound.serverSeed, updatedRound.nonce,
                                updatedRound.commitHex)
    IN /\ h \in handlers /\ h.kind = "reveal"
       /\ handlers' = handlers \ {h}
       /\ rounds' = [rounds EXCEPT ![h.id] = updatedRound]
       /\ sent' = [kind |-> "reveal", status |-> 200,
                   roundId |-> updatedRound.id,
                   serverSeed |-> updatedRound.serverSeed,
                   nonce |-> updatedRound.nonce,
                   clientSeed |-> updatedRound.clientSeed,
                   combinedSeed |-> updatedRound.combinedSeed,
                   commitHex |-> updatedRound.commitHex,
                   isValid |-> isValid,
                   revealedAt |-> updatedRound.revealedAt]
       /\ UNCHANGED <<started, run, call>>

\* an answer that adds the server seed as soon as the round is played
RevealedDetailsEarly(round) ==
    IF round.status \in {"STARTED", "REVEALED"}
    THEN [serverSeed |-> round.serverSeed, revealedAt |-> round.revealedAt]
    ELSE <<>>

\* rounds/[id]/route.ts:45-49: what the answer adds for a revealed round
RevealedDetails(round) ==
    IF round.status = "REVEALED"
    THEN [serverSeed |-> round.serverSeed, revealedAt |-> round.revealedAt]
    ELSE <<>>

\* rounds/[id]/route.ts:4-60
RoundGET(id) ==
    /\ UNCHANGED <<rounds, handlers, started, run, call>>
    /\ IF id \notin DOMAIN rounds
       THEN sent' = Error("get", 404, "Round not found")
       ELSE
       LET round == rounds[id]
           base == [kind |-> "get", status |-> 200, id |-> round.id,
                    roundStatus |-> round.status, nonce |-> round.nonce,
                    commitHex |-> round.commitHex, rows |-> round.rows]
           details ==
               IF round.status = "STARTED" \/ round.status = "REVEALED"
               THEN [clientSeed |-> round.clientSeed,
                     combinedSeed |-> round.combinedSeed,
                     pegMapHash |-> round.pegMapHash,
                     dropColumn |-> round.dropColumn,
                     binIndex |-> round.binIndex,
                     payoutMultiplier |-> round.payoutMultiplier,
                     betCents |-> round.betCents,
                     pathJson |-> round.pathJson,
                     winAmount |-> PayoutCents(round.betCents, round.payoutMultiplier)]
               ELSE <<>>
       IN sent' = RevealedDetails(round) @@ details @@ base

\* verify/route.ts:5-79: the query parameters are strings, or missing
VerifyGET(query) ==
    /\ UNCHANGED <<rounds, handlers, started, run, call>>
    /\ IF \/ ~Has(query, "serverSeed") \/ ~Has(query, "clientSeed")
          \/ ~Has(query, "nonce") \/ ~Has(query, "dropColumn")
          \/ query.serverSeed = <<>> \/ query.clientSeed = <<>> \/ query.nonce = <<>>
       THEN sent' = Error("verify", 400,
                "Missing required parameters: serverSeed, clientSeed, nonce, dropColumn")
       ELSE
       LET dropCol == ParseInt(query.dropColumn)
       IN IF dropCol = NaN \/ dropCol < 0 \/ dropCol > 12
          THEN sent' = Error("verify", 400, "Drop column must be a number between 0 and 12")
          ELSE
          \E gameResult \in
                {PlayRoundValue(query.serverSeed, query.clientSeed, query.nonce, dropCol,
                                12, 100)} :
          LET commitHex == createCommitHash(query.serverSeed, query.nonce)
              combinedSeed ==
                  generateCombinedSeed(query.serverSeed, query.clientSeed, query.nonce)
              commitValid == verifyCommit(query.serverSeed, query.nonce, commitHex)
          IN IF Has(gameResult, "thrown")
             THEN sent' = Error("verify", 500, "Failed to verify round")
             ELSE sent' = [kind |-> "verify", status |-> 200,
                           serverSeed |-> query.serverSeed,
                           clientSeed |-> query.clientSeed,
                           nonce |-> query.nonce,
                           dropColumn |-> dropCol,
                           commitHex |-> commitHex,
                           combinedSeed |-> combinedSeed,
                           pegMapHash |-> gameResult.pegMapHash,
                           binIndex |-> gameResult.binIndex,
                           payoutMultiplier |-> gameResult.payoutMultiplier,
                           pegMap |-> gameResult.pegMap,
                           path |-> PathJson(gameResult.path),
                           commitValid |-> commitValid,
                           rows |-> 12]

(***************************************************************************)
(* The requests of the players.                                            *)
(***************************************************************************)
RoundIds == 1..MaxRounds

\* bodies of POST /api/rounds/[id]/start: well formed, without a drop
\* column, and refused ones
StartBodies ==
    { [clientSeed |-> ClientSeedA, betCents |-> 100, dropColumn |-> 6],
      [clientSeed |-> ClientSeedB, betCents |-> 250, dropColumn |-> 0],
      [clientSeed |-> ClientSeedA, betCents |-> 100],
      [clientSeed |-> <<>>, betCents |-> 100, dropColumn |-> 6],
      [betCents |-> 100, dropColumn |-> 6],
      [clientSeed |-> ClientSeedA, betCents |-> 0, dropColumn |-> 6],
      [clientSeed |-> ClientSeedA, dropColumn |-> 6],
      [clientSeed |-> ClientSeedA, betCents |-> 100, dropColumn |-> 13],
      [clientSeed |-> ClientSeedA, betCents |-> 100, dropColumn |-> -1] }

\* queries of GET /api/verify: the replay of a revealed round from what the
\* reveal and the round's record publish, and refused ones
VerifyQueries ==
    { [serverSeed |-> rounds[id].serverSeed, clientSeed |-> rounds[id].clientSeed,
       nonce |-> rounds[id].nonce, dropColumn |-> IntToString(rounds[id].dropColumn)] :
         id \in {j \in DOMAIN rounds : rounds[j].status = "REVEALED"} }
    \cup
    { [serverSeed |-> ServerSeedA, clientSeed |-> ClientSeedA, nonce |-> NonceA],
      [serverSeed |-> ServerSeedA, clientSeed |-> ClientSeedA, nonce |-> NonceA,
       dropColumn |-> <<49, 51>>],
      [serverSeed |-> ServerSeedA, clientSeed |-> ClientSeedA, nonce |-> NonceA,
       dropColumn |-> <<120>>],
      [serverSeed |-> <<>>, clientSeed |-> ClientSeedA, nonce |-> NonceA,
       dropColumn |-> <<54>>] }

NoResponse == [kind |-> "none"]
NoCall == [fn |-> "none"]

Init ==
    /\ rounds = <<>>
    /\ handlers = {}
    /\ sent = NoResponse
    /\ started = <<>>
    /\ run = <<>>
    /\ call = NoCall

Next ==
    \/ CommitPOST
    \/ \E id \in RoundIds, body \in StartBodies : StartFind(id, body)
    \/ \E h \in handlers : StartUpdate(h)
    \/ \E id \in RoundIds : RevealFind(id)
    \/ \E h \in handlers : RevealUpdate(h)
    \/ \E id \in RoundIds : RoundGET(id)
    \/ \E query \in VerifyQueries : VerifyGET(query)

Spec == Init /\ [][Next]_vars

(***************************************************************************)
(* Calls of playRound, step by step, two at a time.                        *)
(***************************************************************************)
Invocations == {1, 2}

\* the arguments of the two calls:
\* <<serverSeed, clientSeed, nonce, dropColumn, rows, betCents>>
ArgsA == <<ServerSeedA, ClientSeedA, NonceA, 6, 12, 100>>
ArgsB == <<ServerSeedB, ClientSeedB, NonceB, 12, 12, 1>>

EnginePairs ==
    { <<ArgsA, ArgsA>>,
      <<ArgsA, [ArgsA EXCEPT ![6] = 200]>>,
      <<ArgsA, [ArgsA EXCEPT ![4] = 0]>>,
      <<ArgsA, ArgsB>>,
      <<[ArgsA EXCEPT ![4] = Undefined], [ArgsB EXCEPT ![5] = 13]>>,
      <<[ArgsB EXCEPT ![5] = 2], [ArgsB EXCEPT ![5] = 2]>>,
      <<[ArgsA EXCEPT ![5] = 3], [ArgsA EXCEPT ![5] = 13]>>,
      <<[ArgsA EXCEPT ![5] = 14], [ArgsA EXCEPT ![4] = 2, ![5] = 3]>>,
      <<[ArgsA EXCEPT ![4] = 13], [ArgsA EXCEPT ![6] = 0]>>,
      <<[ArgsA EXCEPT ![6] = 1], [ArgsA EXCEPT ![6] = 2]>>,
      <<[ArgsA EXCEPT ![5] = 0], [ArgsB EXCEPT ![4] = 0, ![5] = 0]>> }

Enter(args) == PlayRoundEnter(args[1], args[2], args[3], args[4], args[5], args[6])

InitEngine ==
    /\ rounds = <<>>
    /\ handlers = {}
    /\ sent = NoResponse
    /\ started = <<>>
    /\ call = NoCall
    /\ \E pair \in EnginePairs : run = [i \in Invocations |-> Enter(pair[i])]

\* calls that share one generator: each draws on from where the generator
\* that has served the most draws stands
AdvanceSharedRNG(i) ==
    LET most == CHOOSE j \in Invocations :
                    \A k \in Invocations : run[k].rng.callCount <= run[j].rng.callCount
        shared == IF run[i].pc \in {"pegmap", "drop"} THEN run[most].rng ELSE run[i].rng
    IN /\ run' = [run EXCEPT ![i] = EngineStep([run[i] EXCEPT !.rng = shared])]
       /\ UNCHANGED <<rounds, handlers, sent, started, call>>

\* calls that keep the peg map in one place: the walk of a call reads the
\* map of the last of the calls whose map is complete
AdvanceSharedPegMap(i) ==
    LET last == CHOOSE j \in Invocations :
                    /\ run[j].pc # "pegmap"
                    /\ \A k \in Invocations : run[k].pc # "pegmap" => k <= j
        shared == IF run[i].pc = "drop" THEN run[last].pegMap ELSE run[i].pegMap
    IN /\ run' = [run EXCEPT ![i] = EngineStep([run[i] EXCEPT !.pegMap = shared])]
       /\ UNCHANGED <<rounds, handlers, sent, started, call>>

\* one step of a call of playRound
Advance(i) ==
    /\ run' = [run EXCEPT ![i] = EngineStep(run[i])]
    /\ UNCHANGED <<rounds, handlers, sent, started, call>>

PegDraw(i) == run[i].pc = "pegmap" /\ Advance(i)
HashPegMap(i) == run[i].pc = "hash" /\ Advance(i)
DropRow(i) == run[i].pc = "drop" /\ Advance(i)
Payout(i) == run[i].pc = "payout" /\ Advance(i)

NextEngine ==
    \/ \E i \in Invocations : PegDraw(i)
    \/ \E i \in Invocations : HashPegMap(i)
    \/ \E i \in Invocations : DropRow(i)
    \/ \E i \in Invocations : Payout(i)

SpecEngine == InitEngine /\ [][NextEngine]_vars

\* playRound is synchronous code on one thread: a call, once entered, runs
\* on step after step until it returns or throws, and the next call is
\* entered after that
EngineRuns(i) ==
    /\ \A j \in Invocations : j < i => run[j].pc \in {"returned", "thrown"}
    /\ \/ PegDraw(i)
       \/ HashPegMap(i)
       \/ DropRow(i)
       \/ Payout(i)

NextEngineSerial == \E i \in Invocations : EngineRuns(i)

\* a step is possible exactly while a call has not ended: every step of a
\* call changes its frame, and a call that has returned or thrown has none
EngineCanRun == \E i \in Invocations : run[i].pc \notin {"returned", "thrown"}

\* weak fairness of NextEngineSerial, that is WF_vars(NextEngineSerial),
\* with ENABLED <<NextEngineSerial>>_vars written as the predicate it equals
EngineRunsOn == []<>(~EngineCanRun) \/ []<><<NextEngineSerial>>_vars

SpecEngineSerial == InitEngine /\ [][NextEngineSerial]_vars /\ EngineRunsOn

(***************************************************************************)
(* Calls of the functions of ProvablyFairProtocol on their own.            *)
(***************************************************************************)
WrongHash == <<119, 114, 111, 110, 103, 95, 104, 97, 115, 104>>

LibSecrets == {ServerSeedA, ServerSeedB, ClientSeedB}
LibNonces == {NonceA, NonceB, ClientSeedB}

\* String.prototype.toUpperCase on hexadecimal text
ToUpperCase(s) == [k \in DOMAIN s |-> IF s[k] >= 97 /\ s[k] <= 122 THEN s[k] - 32 ELSE s[k]]

LibCommitments ==
    {createCommitHash(s, n) : s \in LibSecrets, n \in LibNonces}
    \cup {WrongHash, <<>>, ToUpperCase(createCommitHash(ServerSeedA, NonceA)),
          Substring(createCommitHash(ServerSeedA, NonceA), 0, 63)}

CreateCommitHashCall ==
    \E s \in LibSecrets, n \in LibNonces :
        /\ call' = [fn |-> "createCommitHash", serverSeed |-> s, nonce |-> n,
                    result |-> createCommitHash(s, n)]
        /\ UNCHANGED <<rounds, handlers, sent, started, run>>

VerifyCommitCall ==
    \E s \in LibSecrets, n \in LibNonces, c \in LibCommitments :
        /\ call' = [fn |-> "verifyCommit", serverSeed |-> s, nonce |-> n,
                    commitHash |-> c, result |-> verifyCommit(s, n, c)]
        /\ UNCHANGED <<rounds, handlers, sent, started, run>>

\* the bin counts getPayoutMultipliers is called with
LibBins == 0..MaxBins

GetPayoutMultipliersCall ==
    \E bins \in LibBins :
        /\ call' = [fn |-> "getPayoutMultipliers", bins |-> bins,
                    result |-> getPayoutMultipliers(bins)]
        /\ UNCHANGED <<rounds, handlers, sent, started, run>>

\* texts given to extractPRNGSeed: the combined seed of the tests
\* ('abcdef1234567890' four times), its first 8 characters with another
\* tail, the combined seeds of two rounds, 'ffffffff', '00000000ff',
\* 'E1DDDF77aa', '8000000000', and texts that are no combined seed:
\* 'xyz', '12g45678' and the empty text
TestCombinedSeed ==
    LET s == <<97, 98, 99, 100, 101, 102, 49, 50, 51, 52, 53, 54, 55, 56, 57, 48>>
    IN s \o s \o s \o s

LibCombinedSeeds ==
    {TestCombinedSeed,
     <<97, 98, 99, 100, 101, 102, 49, 50, 48, 48, 48, 48, 48, 48, 48, 48, 55, 55>>,
     generateCombinedSeed(ServerSeedA, ClientSeedA, NonceA),
     generateCombinedSeed(ServerSeedB, ClientSeedB, NonceB),
     <<102, 102, 102, 102, 102, 102, 102, 102>>,
     <<48, 48, 48, 48, 48, 48, 48, 48, 102, 102>>,
     <<69, 49, 68, 68, 68, 70, 55, 55, 97, 97>>,
     <<56, 48, 48, 48, 48, 48, 48, 48, 48, 48>>,
     <<120, 121, 122>>,
     <<49, 50, 103, 52, 53, 54, 55, 56>>,
     <<>>}

ExtractPRNGSeedCall ==
    \E s \in LibCombinedSeeds :
        /\ call' = [fn |-> "extractPRNGSeed", combinedSeed |-> s,
                    result |-> extractPRNGSeed(s)]
        /\ UNCHANGED <<rounds, handlers, sent, started, run>>

NextLib ==
    \/ CreateCommitHashCall
    \/ VerifyCommitCall
    \/ GetPayoutMultipliersCall
    \/ ExtractPRNGSeedCall

SpecLib == Init /\ [][NextLib]_vars

(***************************************************************************)
(* Properties of playRound, checked under SpecEngine.                      *)
(***************************************************************************)
Ended(f) == f.pc \in {"returned", "thrown"}

SameArguments(f, g) ==
    /\ f.serverSeed = g.serverSeed /\ f.clientSeed = g.clientSeed /\ f.nonce = g.nonce
    /\ f.dropColumn = g.dropColumn /\ f.rows = g.rows /\ f.betCents = g.betCents

C9_DrawCount ==
    \A i \in Invocations :
        LET f == run[i]
            R == f.rows
        IN R > 0 =>
             /\ getCallCount(f.rng) <= R + ((R * (R + 1)) \div 2)
             /\ f.pc = "returned" =>
                    /\ getCallCount(f.rng) = R + ((R * (R + 1)) \div 2)
                    /\ Len(f.path) = R

\* the first n values of a generator
RECURSIVE DrawsFrom(_, _)
DrawsFrom(rng, n) ==
    IF n = 0 THEN <<>>
    ELSE LET next == RoundRNGNext(rng) IN <<next.prng>> \o DrawsFrom(next, n - 1)

EngineSeeds ==
    {generateCombinedSeed(pair[i][1], pair[i][2], pair[i][3]) :
        pair \in EnginePairs, i \in Invocations}

MostRows == Max(ROWS, CHOOSE r \in {pair[i][5] : pair \in EnginePairs, i \in Invocations} :
                          \A pair \in EnginePairs, i \in Invocations : pair[i][5] <= r)

\* the stream of each combined seed, as far as a call reads it
Stream ==
    [s \in EngineSeeds |->
        DrawsFrom(RoundRNGNew(s), MostRows + ((MostRows * (MostRows + 1)) \div 2))] @@ <<>>

C5_VerifyCommit ==
    call.fn = "verifyCommit" =>
        /\ call.result \in BOOLEAN
        /\ call.result <=> (call.commitHash = createCommitHash(call.serverSeed, call.nonce))

C5_Witness ==
    /\ call.fn = "verifyCommit"
    /\ call.result = FALSE
    /\ call.commitHash = Substring(createCommitHash(call.serverSeed, call.nonce), 0, 63)

(***************************************************************************)
(* Properties of the routes, checked under Spec.                           *)
(***************************************************************************)
\* the round a response is about
ResponseRound ==
    IF Has(sent, "roundId") THEN sent.roundId
    ELSE IF Has(sent, "id") THEN sent.id
    ELSE 0

\* C2: a response of the commit, start, reveal or round route carries the
\* server seed only when the round's stored status is REVEALED; the reveal
\* has then run, and the response is the reveal's or a later read's.
C2_SeedHidden ==
    (sent.kind \in {"commit", "start", "reveal", "get"} /\ Has(sent, "serverSeed")) =>
        /\ sent.kind \in {"reveal", "get"}
        /\ ResponseRound \in DOMAIN rounds
        /\ rounds[ResponseRound].status = "REVEALED"
        /\ rounds[ResponseRound].revealedAt # "null"

C2_Witness ==
    /\ sent.kind = "get" /\ Has(sent, "serverSeed")
    /\ sent.serverSeed = rounds[sent.id].serverSeed

\* C3: a round's stored status only goes CREATED -> STARTED -> REVEALED,
\* never back and never past a step; a start succeeds only on a stored
\* status CREATED and a reveal only on a stored status STARTED.
C3_StatusOrder ==
    [][ /\ \A id \in DOMAIN rounds :
              \/ rounds'[id].status = rounds[id].status
              \/ rounds[id].status = "CREATED" /\ rounds'[id].status = "STARTED"
              \/ rounds[id].status = "STARTED" /\ rounds'[id].status = "REVEALED"
        /\ \A id \in DOMAIN rounds' \ DOMAIN rounds : rounds'[id].status = "CREATED"
        /\ \A h \in handlers \ handlers' :
              /\ (h.kind = "start" /\ started'[h.id] = started[h.id] + 1)
                    => rounds[h.id].status = "CREATED"
              /\ h.kind = "reveal" => rounds[h.id].status = "STARTED"
      ]_vars

\* C4: of the start requests made at the same time for one round at most
\* one writes the round.
C4_StartedOnce == \A id \in DOMAIN started : started[id] <= 1

\* C6: the stored commitment of every round is
\* createCommitHash(serverSeed, nonce) of its stored server seed and nonce,
\* and every reveal response reports the commitment as valid.
C6_CommitmentHolds ==
    /\ \A id \in DOMAIN rounds :
           rounds[id].commitHex = createCommitHash(rounds[id].serverSeed, rounds[id].nonce)
    /\ (sent.kind = "reveal" /\ sent.status = 200) =>
           /\ sent.isValid = TRUE
           /\ sent.commitHex = createCommitHash(sent.serverSeed, sent.nonce)

C6_Witness ==
    /\ sent.kind = "reveal" /\ sent.status = 200
    /\ rounds[sent.roundId].status = "REVEALED"
    /\ sent.commitHex = rounds[sent.roundId].commitHex

\* C7: no step changes the commitment, the nonce or the server seed of a
\* round once the round is created.
C7_CommitmentFrozen ==
    [][ \A id \in DOMAIN rounds :
            /\ id \in DOMAIN rounds'
            /\ rounds'[id].commitHex = rounds[id].commitHex
            /\ rounds'[id].nonce = rounds[id].nonce
            /\ rounds'[id].serverSeed = rounds[id].serverSeed
      ]_vars

C7_Witness ==
    \E id \in DOMAIN rounds :
        /\ rounds[id].status = "REVEALED"
        /\ started[id] >= 1
        /\ rounds[id].clientSeed # <<>>

\* the verify query made of what the reveal and the round's record publish
ReplayOf(round) ==
    /\ sent.serverSeed = round.serverSeed
    /\ sent.clientSeed = round.clientSeed
    /\ sent.nonce = round.nonce
    /\ sent.dropColumn = round.dropColumn

\* C8: the verify route, given the server seed, client seed, nonce and drop
\* column of a revealed round, answers with the round's stored commitment,
\* combined seed, peg map hash, bin index, multiplier and path.
C8_VerifyReproduces ==
    (sent.kind = "verify" /\ sent.status = 200) =>
        \A id \in DOMAIN rounds :
            (rounds[id].status = "REVEALED" /\ ReplayOf(rounds[id])) =>
                /\ sent.commitHex = rounds[id].commitHex
                /\ sent.combinedSeed = rounds[id].combinedSeed
                /\ sent.pegMapHash = rounds[id].pegMapHash
                /\ sent.binIndex = rounds[id].binIndex
                /\ sent.payoutMultiplier = rounds[id].payoutMultiplier
                /\ sent.path = rounds[id].pathJson

(***************************************************************************)
(* Properties of the path, checked under SpecEngine.                       *)
(***************************************************************************)
\* C11: for every positive row count and every drop column from 0 to the
\* row count, playRound returns a path of exactly as many steps as rows,
\* whose k-th step (from 0) records row k.
C11_PathLength ==
    \A i \in Invocations :
        LET f == run[i]
        IN (f.rows > 0 /\ IsNumber(f.dropColumn) /\ f.dropColumn >= 0
               /\ f.dropColumn <= f.rows /\ Ended(f)) =>
             /\ f.pc = "returned"
             /\ Len(f.path) = f.rows
             /\ \A k \in 0..(Len(f.path) - 1) : f.path[k + 1].row = k

\* the number of steps to the right among the first n steps of a path
RightMoves(path, n) == Cardinality({k \in 1..n : path[k].direction = "right"})

\* C12: after every step of the path the recorded column is the number of
\* steps to the right taken so far, that step included; the bin index of a
\* returned round is the column of the last step, the number of all steps
\* to the right, and lies between 0 and the row count.
C12_ColumnCountsRights ==
    \A i \in Invocations :
        LET f == run[i]
        IN /\ \A k \in 1..Len(f.path) :
                  /\ f.path[k].column = RightMoves(f.path, k)
                  /\ f.path[k].direction \in {"left", "right"}
           /\ f.pos = RightMoves(f.path, Len(f.path))
           /\ f.pc = "returned" =>
                  /\ f.binIndex = f.path[Len(f.path)].column
                  /\ f.binIndex = RightMoves(f.path, Len(f.path))
                  /\ f.binIndex >= 0 /\ f.binIndex <= f.rows

C12_Witness ==
    \E i \in Invocations :
        /\ run[i].pc = "returned"
        /\ run[i].binIndex > 0 /\ run[i].binIndex < Len(run[i].path)
        /\ run[i].path[Len(run[i].path)].direction = "right"

\* C13: in every step of the path the adjusted bias is the peg's bias plus
\* (drop column - floor(row count / 2)) * 0.01, clamped to [0, 1], and the
\* direction is "left" exactly when the step's draw is strictly less than
\* the adjusted bias. (Biases in millionths.)
C13_AdjustedBias ==
    \A i \in Invocations :
        LET f == run[i]
        IN IsNumber(f.dropColumn) =>
             \A k \in 1..Len(f.path) :
                 LET step == f.path[k]
                     adjustment == (f.dropColumn - (f.rows \div 2)) * 10000
                 IN /\ step.adjustedBias = Max(0, Min(1000000, step.pegBias + adjustment))
                    /\ step.adjustedBias >= 0 /\ step.adjustedBias <= 1000000
                    /\ (step.direction = "left")
                           <=> LessThanBias(step.randomValue, step.adjustedBias)

(***************************************************************************)
(* Properties of the peg map, checked under SpecEngine.                    *)
(***************************************************************************)
\* the smallest state of the generator, the largest and the middle one
ExtremeStates == {<<0, 1>>, <<32768, 0>>, <<65535, 65535>>}

\* C14: every bias of a generated peg map, rounded to 6 decimals, lies
\* between 0.4 and 0.6 (400000 and 600000 millionths), whatever the seed
\* and the row count - also for the least and the greatest draw there is.
C14_BiasBounds ==
    /\ \A i \in Invocations :
           /\ \A r \in 1..Len(run[i].pegMap) : \A p \in 1..Len(run[i].pegMap[r]) :
                  run[i].pegMap[r][p] >= 400000 /\ run[i].pegMap[r][p] <= 600000
           /\ \A p \in 1..Len(run[i].pegRow) :
                  run[i].pegRow[p] >= 400000 /\ run[i].pegRow[p] <= 600000
    /\ \A state \in ExtremeStates :
           RoundedBias(state) >= 400000 /\ RoundedBias(state) <= 600000

C14_Witness ==
    \E i \in Invocations :
        /\ run[i].pc = "returned" /\ Len(run[i].pegMap) = 14
        /\ \E r \in 1..14 : \E p \in 1..r : run[i].pegMap[r][p] < 420000
        /\ \E r \in 1..14 : \E p \in 1..r : run[i].pegMap[r][p] > 580000

\* C15: generatePegMap(rng, R) returns exactly R rows and row r (from 0)
\* holds exactly r + 1 biases, for every R >= 0; while it runs, the rows
\* finished so far have that shape.
C15_PegMapShape ==
    \A i \in Invocations :
        LET f == run[i]
        IN /\ \A r \in 0..(Len(f.pegMap) - 1) : Len(f.pegMap[r + 1]) = r + 1
           /\ f.pc = "pegmap" =>
                  /\ Len(f.pegMap) = f.row /\ f.row < f.rows
                  /\ Len(f.pegRow) = f.peg /\ f.peg <= f.row
           /\ f.pc # "pegmap" => Len(f.pegMap) = f.rows

C15_Witness ==
    \E i, j \in Invocations :
        /\ run[i].rows = 14 /\ run[i].pc = "returned"
        /\ Len(run[i].pegMap) = 14 /\ Len(run[i].pegMap[14]) = 14
        /\ run[j].rows = 3 /\ run[j].pc = "thrown" /\ Len(run[j].pegMap) = 3

(***************************************************************************)
(* Properties of the payout table, checked under SpecLib.                  *)
(* Multipliers in hundredths; bin i (from 0) is entry i + 1.               *)
(***************************************************************************)
\* C16: for every bin count B, even or odd, and every bin i of 0..B-1 the
\* multiplier of bin i equals the multiplier of bin B-1-i.
C16_TableSymmetric ==
    call.fn = "getPayoutMultipliers" =>
        /\ Len(call.result) = call.bins
        /\ \A i \in 0..(call.bins - 1) :
               call.result[i + 1] = call.result[(call.bins - 1 - i) + 1]

\* C17 as stated: for every bin count B > 1 the multipliers of bin 0 and
\* of bin B-1 both strictly exceed the multiplier of the center bin
\* floor(B/2).
C17_EdgesExceedCenter ==
    (call.fn = "getPayoutMultipliers" /\ call.bins > 1) =>
        /\ call.result[1] > call.result[(call.bins \div 2) + 1]
        /\ call.result[call.bins] > call.result[(call.bins \div 2) + 1]

\* C17, amended: for every bin count B > 2 the multipliers of bin 0 and of
\* bin B-1 both strictly exceed the multiplier of the center bin
\* floor(B/2). (With B = 2 bin B-1 is the center bin itself.)
C17_EdgesExceedCenterFrom3 ==
    (call.fn = "getPayoutMultipliers" /\ call.bins > 2) =>
        /\ call.result[1] > call.result[(call.bins \div 2) + 1]
        /\ call.result[call.bins] > call.result[(call.bins \div 2) + 1]

C17_Witness ==
    /\ call.fn = "getPayoutMultipliers" /\ call.bins = BINS
    /\ call.result[1] = 230 /\ call.result[BINS] = 230
    /\ call.result[(BINS \div 2) + 1] = 50

(***************************************************************************)
(* Properties of the payout and of the inputs, checked under SpecEngine.   *)
(***************************************************************************)
\* two calls that differ in nothing but the stake, the second's twice the
\* first's
StakeDoubled(f, g) ==
    /\ f.serverSeed = g.serverSeed /\ f.clientSeed = g.clientSeed /\ f.nonce = g.nonce
    /\ f.dropColumn = g.dropColumn /\ f.rows = g.rows
    /\ f.betCents > 0 /\ g.betCents = 2 * f.betCents

\* C18 as stated: for every round input and every positive integer stake s,
\* playRound with stake 2s returns exactly twice the payout it returns
\* with stake s, and the same bin index and multiplier.
C18_StakeLinear ==
    \A i, j \in Invocations :
        (StakeDoubled(run[i], run[j]) /\ run[i].pc = "returned" /\ run[j].pc = "returned") =>
            /\ run[j].payoutCents = 2 * run[i].payoutCents
            /\ run[j].binIndex = run[i].binIndex
            /\ run[j].payoutMultiplier = run[i].payoutMultiplier

\* stakes that are multiples of 10
StakesOfTen == {10, 30, 50, 100, 250, 1370}

\* C18, amended: for every round input and every positive stake s that is
\* a multiple of 10, playRound with stake 2s returns exactly twice the
\* payout it returns with stake s, and the same bin index and multiplier.
C18_StakeLinearTens ==
    /\ \A i, j \in Invocations :
        (/\ StakeDoubled(run[i], run[j]) /\ run[i].betCents % 10 = 0
         /\ run[i].pc = "returned" /\ run[j].pc = "returned") =>
            /\ run[j].payoutCents = 2 * run[i].payoutCents
            /\ run[j].binIndex = run[i].binIndex
            /\ run[j].payoutMultiplier = run[i].payoutMultiplier
    /\ \A s \in StakesOfTen : \A b \in 1..BINS :
           PayoutCents(2 * s, getPayoutMultipliers(BINS)[b])
               = 2 * PayoutCents(s, getPayoutMultipliers(BINS)[b])

C18_Witness ==
    \E i, j \in Invocations :
        /\ StakeDoubled(run[i], run[j]) /\ run[i].betCents % 10 = 0
        /\ run[i].pc = "returned" /\ run[j].pc = "returned"
        /\ run[i].payoutCents > 0
        /\ run[j].payoutCents = 2 * run[i].payoutCents

\* input playRound is to refuse: a drop column outside 0..rows, a stake
\* that is not positive, an empty seed or nonce
InvalidInput(f) ==
    \/ IsNumber(f.dropColumn) /\ (f.dropColumn < 0 \/ f.dropColumn > f.rows)
    \/ f.betCents <= 0
    \/ f.serverSeed = <<>> \/ f.clientSeed = <<>> \/ f.nonce = <<>>

\* C19: given a drop column outside 0..rows, a stake that is not positive
\* or an empty seed or nonce, playRound fails before it takes any draw
\* from the generator, and never returns a result.
C19_RejectsInvalidInput ==
    \A i \in Invocations :
        InvalidInput(run[i]) =>
            /\ getCallCount(run[i].rng) = 0
            /\ run[i].pc # "returned"

\* two calls with the same seeds, nonce and row count
SameSeedsAndRows(f, g) ==
    /\ f.serverSeed = g.serverSeed /\ f.clientSeed = g.clientSeed /\ f.nonce = g.nonce
    /\ f.rows = g.rows

\* the draws a path records, in order
RecordedDraws(path) == [k \in 1..Len(path) |-> path[k].randomValue]

\* C20: the peg map and its hash depend on the server seed, client seed,
\* nonce and row count only: two calls that differ in nothing but the drop
\* column or the stake have the same peg map, hash and recorded draws, and
\* two calls that differ in nothing but the stake have the same path, bin
\* index and multiplier.
C20_PegMapIndependent ==
    \A i, j \in Invocations :
        SameSeedsAndRows(run[i], run[j]) =>
            /\ (run[i].pc # "pegmap" /\ run[j].pc # "pegmap") =>
                   run[i].pegMap = run[j].pegMap
            /\ (run[i].pc \notin {"pegmap", "hash"} /\ run[j].pc \notin {"pegmap", "hash"}) =>
                   run[i].pegMapHash = run[j].pegMapHash
            /\ (Ended(run[i]) /\ Ended(run[j])) =>
                   RecordedDraws(run[i].path) = RecordedDraws(run[j].path)
            /\ (Ended(run[i]) /\ Ended(run[j]) /\ run[i].dropColumn = run[j].dropColumn) =>
                   /\ run[i].path = run[j].path
                   /\ run[i].binIndex = run[j].binIndex
                   /\ run[i].payoutMultiplier = run[j].payoutMultiplier

C20_Witness ==
    \E i, j \in Invocations :
        /\ SameSeedsAndRows(run[i], run[j])
        /\ run[i].dropColumn = 6 /\ run[j].dropColumn = 0
        /\ run[i].pc = "returned" /\ run[j].pc = "returned"
        /\ run[i].pegMap = run[j].pegMap /\ run[i].path # run[j].path

(***************************************************************************)
(* The generators on their own: objects of XORShift32 and of RoundRNG,     *)
(* constructed, drawn from, read and reset. call holds the object after    *)
(* its latest call: state is the XORShift32's state, rng the RoundRNG;     *)
(* nexts counts the calls of next() since the construction or the last     *)
(* reset, outputs lists what they returned and wasReset tells whether the  *)
(* object was ever reset.                                                  *)
(***************************************************************************)
\* seeds given to new XORShift32(seed): 0, 1, NaN, 2^32 - 1, 0xe1dddf77,
\* -1, 2^32 and 2^31
XORShift32Seeds ==
    {<<0, 0>>, <<0, 1>>, NaNWord, <<65535, 65535>>, <<57821, 57207>>,
     <<-1, 65535>>, <<65536, 0>>, <<32768, 0>>}

\* combined seeds given to new RoundRNG(combinedSeed) and to reset
RoundRNGSeeds ==
    {generateCombinedSeed(ServerSeedA, ClientSeedA, NonceA),
     generateCombinedSeed(ServerSeedB, ClientSeedB, NonceB),
     <<48, 48, 48, 48, 48, 48, 48, 48, 102, 102>>}

XORShift32Construct ==
    \E seed \in XORShift32Seeds :
        /\ call' = [fn |-> "XORShift32", seed |-> seed, state |-> XORShift32New(seed),
                    nexts |-> 0]
        /\ UNCHANGED <<rounds, handlers, sent, started, run>>

XORShift32NextCall ==
    /\ call.fn \in {"XORShift32", "XORShift32.next"}
    /\ call.nexts < MaxDraws
    /\ \E state \in {XORShift32Next(call.state)} :
           call' = [fn |-> "XORShift32.next", seed |-> call.seed, state |-> state,
                    result |-> state, nexts |-> call.nexts + 1]
    /\ UNCHANGED <<rounds, handlers, sent, started, run>>

IsRoundRNG == call.fn \in {"RoundRNG", "RoundRNG.next", "RoundRNG.getCallCount", "RoundRNG.reset"}

RoundRNGConstruct ==
    \E combinedSeed \in RoundRNGSeeds :
        /\ call' = [fn |-> "RoundRNG", combinedSeed |-> combinedSeed,
                    rng |-> RoundRNGNew(combinedSeed), nexts |-> 0, outputs |-> <<>>,
                    wasReset |-> FALSE]
        /\ UNCHANGED <<rounds, handlers, sent, started, run>>

RoundRNGNextCall ==
    /\ IsRoundRNG
    /\ call.nexts < MaxDraws
    /\ \E rng \in {RoundRNGNext(call.rng)} :
           call' = [fn |-> "RoundRNG.next", combinedSeed |-> call.combinedSeed, rng |-> rng,
                    result |-> rng.prng, nexts |-> call.nexts + 1,
                    outputs |-> Append(call.outputs, rng.prng),
                    wasReset |-> call.wasReset]
    /\ UNCHANGED <<rounds, handlers, sent, started, run>>

RoundRNGGetCallCountCall ==
    /\ IsRoundRNG
    /\ call' = [fn |-> "RoundRNG.getCallCount", combinedSeed |-> call.combinedSeed,
                rng |-> call.rng, result |-> getCallCount(call.rng),
                nexts |-> call.nexts, outputs |-> call.outputs,
                wasReset |-> call.wasReset]
    /\ UNCHANGED <<rounds, handlers, sent, started, run>>

RoundRNGResetCall ==
    /\ IsRoundRNG
    /\ \E combinedSeed \in RoundRNGSeeds :
           call' = [fn |-> "RoundRNG.reset", combinedSeed |-> combinedSeed,
                    rng |-> RoundRNGReset(call.rng, combinedSeed),
                    nexts |-> 0, outputs |-> <<>>, wasReset |-> TRUE]
    /\ UNCHANGED <<rounds, handlers, sent, started, run>>

NextRNG ==
    \/ XORShift32Construct
    \/ XORShift32NextCall
    \/ RoundRNGConstruct
    \/ RoundRNGNextCall
    \/ RoundRNGGetCallCountCall
    \/ RoundRNGResetCall

SpecRNG == Init /\ [][NextRNG]_vars

\* a 32-bit unsigned number: both halves in 0..65535
IsUint32(w) == w[1] >= 0 /\ w[1] < Half /\ w[2] >= 0 /\ w[2] < Half

\* C21: new XORShift32(0) has state 1, and for every seed the state is a
\* 32-bit unsigned number other than 0 after the construction and after
\* every call of next(), also inside a RoundRNG.
C21_StateNeverZero ==
    /\ call.fn \in {"XORShift32", "XORShift32.next"} =>
           /\ IsUint32(call.state) /\ call.state # <<0, 0>>
           /\ (call.fn = "XORShift32" /\ call.seed = <<0, 0>>) => call.state = <<0, 1>>
    /\ IsRoundRNG => (IsUint32(call.rng.prng) /\ call.rng.prng # <<0, 0>>)

C21_Witness ==
    /\ call.fn = "XORShift32.next" /\ call.seed = <<0, 0>>
    /\ call.nexts >= 3 /\ call.state # <<0, 1>>

\* C22: every value next() returns, of XORShift32 and of RoundRNG, is the
\* new state over 2^32 (here its numerator, the state) and lies in [0, 1):
\* the numerator is a 32-bit unsigned number.
C22_OutputInUnitInterval ==
    /\ call.fn = "XORShift32.next" =>
           /\ call.result = call.state
           /\ IsUint32(call.result)
    /\ call.fn = "RoundRNG.next" =>
           /\ call.result = call.rng.prng
           /\ IsUint32(call.result)

C22_Witness ==
    /\ call.fn = "XORShift32.next" /\ call.seed = <<57821, 57207>>
    /\ call.nexts >= 2
    /\ call.result[1] >= 32768

\* C23: getCallCount() of a RoundRNG is the number of calls of next() made
\* since its construction or its last reset: 0 at first, one more after
\* each next(), and changed by nothing else.
C23_CallCount ==
    IsRoundRNG =>
        /\ getCallCount(call.rng) = call.nexts
        /\ call.fn \in {"RoundRNG", "RoundRNG.reset"} => getCallCount(call.rng) = 0
        /\ call.fn = "RoundRNG.getCallCount" => call.result = call.nexts

C23_Witness ==
    /\ call.fn = "RoundRNG.getCallCount"
    /\ call.result = 2 /\ call.nexts = 2

\* the stream of each combined seed as a generator constructed for it
\* yields it
StreamOfSeed ==
    [s \in RoundRNGSeeds |-> DrawsFrom(RoundRNGNew(s), MaxDraws)] @@ <<>>

\* C24: a stream rebuilt for a combined seed, by a new RoundRNG or by
\* reset(combinedSeed) after any number of draws, starts at call count 0
\* and its k-th output is the k-th output of the stream of that seed, for
\* every k.
C24_RebuiltStream ==
    IsRoundRNG =>
        /\ call.fn \in {"RoundRNG", "RoundRNG.reset"} =>
               /\ getCallCount(call.rng) = 0
               /\ call.rng = RoundRNGNew(call.combinedSeed)
        /\ \A k \in 1..Len(call.outputs) :
               call.outputs[k] = StreamOfSeed[call.combinedSeed][k]

\* C24's case: outputs drawn after a reset
C24_Witness ==
    /\ call.fn = "RoundRNG.next" /\ call.wasReset /\ call.nexts = 3
    /\ call.outputs = SubSeq(StreamOfSeed[call.combinedSeed], 1, 3)
    /\ getCallCount(call.rng) = 3

(***************************************************************************)
(* extractPRNGSeed, checked under SpecLib.                                 *)
(***************************************************************************)
\* byte k (from 0) of a hexadecimal text: its characters 2k and 2k + 1
ByteOf(s, k) == 16 * HexDigitValue(s[2 * k + 1]) + HexDigitValue(s[2 * k + 2])

\* a text that begins with 8 hexadecimal digits, as every combined seed
BeginsWithEightHexDigits(s) ==
    Len(s) >= 8 /\ \A k \in 1..8 : HexDigitValue(s[k]) >= 0

\* C25: extractPRNGSeed(combinedSeed) is the first 8 hexadecimal characters
\* of the combined seed read as a big-endian unsigned 32-bit number - the
\* first pair of characters is the most significant byte - a value of
\* 0..2^32 - 1 that does not depend on the characters after the eighth.
C25_BigEndianSeed ==
    (call.fn = "extractPRNGSeed" /\ BeginsWithEightHexDigits(call.combinedSeed)) =>
        /\ IsUint32(call.result)
        /\ call.result[1] = 256 * ByteOf(call.combinedSeed, 0) + ByteOf(call.combinedSeed, 1)
        /\ call.result[2] = 256 * ByteOf(call.combinedSeed, 2) + ByteOf(call.combinedSeed, 3)
        /\ call.result = extractPRNGSeed(SubSeq(call.combinedSeed, 1, 8))

C25_Witness ==
    /\ call.fn = "extractPRNGSeed" /\ call.combinedSeed = TestCombinedSeed
    /\ call.result = <<43981, 61202>>

(***************************************************************************)
(* The published test vector, checked under SpecEngine.                    *)
(***************************************************************************)
\* the combined seed of the test vector, 'e1dddf77de27...406c07e0'
VectorCombinedSeed ==
    <<101, 49, 100, 100, 100, 102, 55, 55, 100, 101, 50, 55, 100, 51, 57, 53, 101, 97, 50, 98, 101, 50, 101, 100, 52, 57, 97, 97, 50, 97, 53, 57>> \o
    <<98, 100, 54, 98, 102, 49, 50, 101, 101, 56, 100, 51, 53, 48, 99, 49, 54, 99, 48, 48, 56, 97, 98, 100, 52, 48, 54, 99, 48, 55, 101, 48>>

\* the first rows of the vector's peg map, in millionths
VectorPegRows == <<<<422123>>, <<552503, 408786>>, <<491574, 468780, 436540>>>>

\* the vector's round: its combined seed, 12 rows, drop column 6
IsVectorRound(f) ==
    f.combinedSeed = VectorCombinedSeed /\ f.rows = 12 /\ f.dropColumn = 6

\* C26: for the published test vector (combined seed e1dddf77...406c07e0,
\* PRNG seed 0xe1dddf77, 12 rows, drop column 6) the peg map begins
\* [0.422123], [0.552503, 0.408786], [0.491574, 0.468780, 0.436540] within
\* 1e-6 and the final bin index is 6.
C26_TestVector ==
    \A i \in Invocations :
        LET f == run[i]
        IN IsVectorRound(f) =>
            /\ extractPRNGSeed(f.combinedSeed) = <<57821, 57207>>
            /\ \A r \in 1..Min(3, Len(f.pegMap)) :
                   /\ Len(f.pegMap[r]) = r
                   /\ \A c \in 1..r :
                          /\ f.pegMap[r][c] - VectorPegRows[r][c] <= 1
                          /\ VectorPegRows[r][c] - f.pegMap[r][c] <= 1
            /\ Ended(f) => f.pc = "returned" /\ Len(f.pegMap) = 12 /\ f.binIndex = 6

C26_Witness ==
    \E i \in Invocations :
        /\ IsVectorRound(run[i]) /\ run[i].pc = "returned"
        /\ run[i].binIndex = 6 /\ run[i].pegMap[3] = VectorPegRows[3]

(***************************************************************************)
(* The number of draws of the 12-row game, checked under SpecEngine.       *)
(***************************************************************************)
\* the pegs of a map, and of the row being made
PegCount(f) ==
    LET RECURSIVE Sum(_)
        Sum(n) == IF n = 0 THEN 0 ELSE Len(f.pegMap[n]) + Sum(n - 1)
    IN Sum(Len(f.pegMap)) + Len(f.pegRow)

DrawsOfTwelveRows ==
    \A i \in Invocations :
        LET f == run[i]
            n == getCallCount(f.rng)
        IN f.rows = 12 =>
            /\ n <= 90
            /\ n = PegCount(f) + Len(f.path)
            /\ n = 0 => f.rng = RoundRNGNew(f.combinedSeed)
            /\ f.pc = "pegmap" => PegCount(f) < 78 /\ f.path = <<>>
            /\ f.pc \in {"hash", "drop", "payout", "returned"} => PegCount(f) = 78
            /\ f.pc = "hash" => n = 78
            /\ f.pc = "returned" => Len(f.path) = 12 /\ n = 78 + 12

\* a step of a 12-row round leaves its generator alone or takes the next
\* draw of it, which is the value of the peg or of the path step it adds
NextDrawOfTwelveRows ==
    \A i \in Invocations :
        LET f == run[i]
            g == run'[i]
        IN f.rows = 12 =>
            \/ g.rng = f.rng /\ PegCount(g) = PegCount(f) /\ g.path = f.path
            \/ /\ g.rng = RoundRNGNext(f.rng)
               /\ \/ /\ f.pc = "pegmap" /\ g.path = f.path
                     /\ PegCount(g) = PegCount(f) + 1
                  \/ /\ f.pc = "drop" /\ PegCount(g) = PegCount(f)
                     /\ Len(g.path) = Len(f.path) + 1
                     /\ g.path[Len(g.path)].randomValue = g.rng.prng

EngineArgs == {pair[i] : pair \in EnginePairs, i \in Invocations}

ArgumentsOf(f) == <<f.serverSeed, f.clientSeed, f.nonce, f.dropColumn, f.rows, f.betCents>>

\* each call made with nothing beside it, from its entry to its end
AloneRounds == [a \in EngineArgs |-> RunToEnd(Enter(a))] @@ <<>>

TableMultiplier(bin, binCount) == 50 + 30 * Abs(bin - (binCount \div 2))

\* num / den rounded to an integer, halves upwards
RoundHalfUp(num, den) == ((2 * num) + den) \div (2 * den)

\* C29: the payoutCents of a Game Result is stake * multiplier rounded
\* half-up to an integer, the multiplier being the entry for binIndex,
\* round_2dp(0.5 + 0.3 * |binIndex - floor(binCount / 2)|), of a table of
\* binCount = row count + 1 entries, so that every bin index a round can
\* end in has a multiplier. (Multipliers in hundredths.)
C29_PayoutFromRowsTable ==
    \A i \in Invocations :
        LET f == run[i]
            binCount == f.rows + 1
        IN f.pc = "returned" =>
            /\ f.binIndex \in 0..(binCount - 1)
            /\ f.payoutMultiplier = TableMultiplier(f.binIndex, binCount)
            /\ f.payoutCents = RoundHalfUp(f.betCents * f.payoutMultiplier, 100)

(***************************************************************************)
(* Termination of playRound, checked under SpecEngineSerial.               *)
(***************************************************************************)
\* the draws of a round of R rows: R(R+1)/2 for the pegs and one for each
\* row that is walked
DrawsOfRows(R) == ((R * (R + 1)) \div 2) + Min(R, ROWS)

\* a call never takes more draws than its row count gives, and has taken
\* exactly that many when it has ended
DrawsBoundedByRows ==
    \A i \in Invocations :
        LET f == run[i]
        IN f.rows > 0 =>
            /\ getCallCount(f.rng) <= DrawsOfRows(f.rows)
            /\ Ended(f) => getCallCount(f.rng) = DrawsOfRows(f.rows)

\* C30: every call of playRound with a positive row count comes to an end,
\* after a number of draws that is a function of the row count alone,
\* whatever the seeds, the drop column and the stake.
C30_Terminates ==
    /\ []DrawsBoundedByRows
    /\ <>(\A i \in Invocations : run[i].rows > 0 => Ended(run[i]))

C30_Witness ==
    \E i, j \in Invocations :
        /\ run[i].pc = "returned" /\ run[i].rows = 13
        /\ run[j].pc = "returned" /\ run[j].rows = 12
        /\ run[i].combinedSeed # run[j].combinedSeed
        /\ run[i].dropColumn # run[j].dropColumn
        /\ run[i].betCents # run[j].betCents
        /\ getCallCount(run[i].rng) = 91 + 12
        /\ getCallCount(run[j].rng) = 78 + 12

(***************************************************************************)
(* XORShift32.next() against the reference xorshift step, checked under    *)
(* SpecRNG.                                                                *)
(***************************************************************************)
\* the reference on 32-bit unsigned numbers: (s << k) mod 2^32 for k < 16
ReferenceShiftLeft(w, k) ==
    <<((w[1] % (2 ^ (16 - k))) * (2 ^ k)) + (w[2] \div (2 ^ (16 - k))),
      (w[2] % (2 ^ (16 - k))) * (2 ^ k)>>

\* s >> 17, logical
ReferenceShiftRight17(w) == <<0, w[1] \div 2>>

ReferenceXor(a, b) == <<Xor16(a[1], b[1], 16), Xor16(a[2], b[2], 16)>>

\* s ^= (s << 13) mod 2^32; s ^= s >> 17; s ^= (s << 5) mod 2^32
ReferenceStep(s) ==
    LET a == ReferenceXor(s, ReferenceShiftLeft(s, 13))
        b == ReferenceXor(a, ReferenceShiftRight17(a))
    IN ReferenceXor(b, ReferenceShiftLeft(b, 5))

\* state / 2^32 in millionths, rounded down
Millionths(w) == ((w[1] * 15625) + ((w[2] * 15625) \div 65536)) \div 1024

\* the first outputs of the generator seeded with 0xe1dddf77, as published:
\* 0.1106166649, 0.7625129214, 0.0439292176, 0.4578678815, 0.3438999297
ExpectedPRNGSequence == <<110616, 762512, 43929, 457867, 343899>>

PublishedOutputs ==
    (call.fn = "XORShift32.next" /\ call.seed = <<57821, 57207>>
        /\ call.nexts <= Len(ExpectedPRNGSequence)) =>
        Millionths(call.result) = ExpectedPRNGSequence[call.nexts]

\* every call of next(), of XORShift32 and inside RoundRNG, takes the state
\* to the reference step of it
NextIsReferenceStep ==
    /\ call'.fn = "XORShift32.next" =>
           /\ IsUint32(call.state)
           /\ call'.state = ReferenceStep(call.state)
    /\ call'.fn = "RoundRNG.next" =>
           /\ IsUint32(call.rng.prng)
           /\ call'.rng.prng = ReferenceStep(call.rng.prng)

\* C31: XORShift32.next() computes exactly the reference xorshift step on
\* 32-bit unsigned values - s ^= (s << 13) mod 2^32; s ^= s >> 17 (logical);
\* s ^= (s << 5) mod 2^32 - whatever the sign of JavaScript's 32-bit
\* intermediate results, and yields the published outputs for 0xe1dddf77.
C31_ReferenceStep == []PublishedOutputs /\ [][NextIsReferenceStep]_vars

\* a step from 2^31, whose first intermediate result is negative
C31_Witness ==
    /\ call.fn = "XORShift32.next" /\ call.seed = <<32768, 0>> /\ call.nexts = 1
    /\ BitXor(call.seed, ShiftLeft(call.seed, 13))[1] < 0
    /\ call.state = ReferenceStep(call.seed)

(***************************************************************************)
(* Start requests that are refused and that are accepted, checked under    *)
(* Spec.                                                                   *)
(***************************************************************************)
\* a start request that was not refused is in handlers until its update
AcceptedStartsAreValid ==
    \A h \in handlers :
        h.kind = "start" =>
            /\ Has(h.body, "dropColumn")
            /\ h.body.dropColumn \in 0..12
            /\ Has(h.body, "betCents") /\ h.body.betCents > 0

\* the step that answers a start request with 400 or 404
RefusedStartChangesNothing ==
    (sent' # sent /\ sent'.kind = "start" /\ sent'.status \in {400, 404}) =>
        /\ rounds' = rounds
        /\ started' = started
        /\ handlers' = handlers

\* C32: a start request that is refused (client seed missing, bet not
\* positive, drop column outside 0..12, round unknown or not CREATED) leaves
\* the stored rounds as they are and plays no round, and every start
\* request that is not refused carries an integer drop column in 0..12 and
\* a positive bet.
C32_StartRefusedOrValid ==
    []AcceptedStartsAreValid /\ [][RefusedStartChangesNothing]_vars

(***************************************************************************)
(* The peg under the ball, checked under SpecEngine.                       *)
(***************************************************************************)
\* C33: in a round of one row or more, at the start of every row r of the
\* walk the position is at most r, so the peg index min(position, r) is the
\* position, is an index into row r of the peg map, which has r + 1
\* entries, and the clamp to r never takes effect.
C33_PegIndexIsPosition ==
    \A i \in Invocations :
        LET f == run[i]
        IN (f.rows > 0 /\ f.pc = "drop") =>
            /\ f.pos >= 0 /\ f.pos <= f.row
            /\ Min(f.pos, f.row) = f.pos
            /\ f.row + 1 \in DOMAIN f.pegMap
            /\ Len(f.pegMap[f.row + 1]) = f.row + 1
            /\ Min(f.pos, f.row) + 1 \in DOMAIN f.pegMap[f.row + 1]

(***************************************************************************)
(* The record of a round that was started, checked under Spec.             *)
(***************************************************************************)
\* what the start of a round records
SameStartRecord(before, after) ==
    /\ after.clientSeed = before.clientSeed
    /\ after.dropColumn = before.dropColumn
    /\ after.betCents = before.betCents
    /\ after.combinedSeed = before.combinedSeed
    /\ after.pegMapHash = before.pegMapHash
    /\ after.binIndex = before.binIndex
    /\ after.payoutMultiplier = before.payoutMultiplier
    /\ after.pathJson = before.pathJson

\* C34: once the status of a round is STARTED (or, after it, REVEALED) no
\* later request, in any interleaving of start and reveal requests, changes
\* its recorded clientSeed, dropColumn, betCents, combinedSeed, pegMapHash,
\* binIndex, payoutMultiplier and path, and a reveal changes only status
\* and revealedAt.
C34_StartRecordFrozen ==
    [][ /\ \A id \in DOMAIN rounds :
              rounds[id].status \in {"STARTED", "REVEALED"} =>
                  SameStartRecord(rounds[id], rounds'[id])
        /\ \A h \in handlers \ handlers' :
              h.kind = "reveal" =>
                  \A id \in DOMAIN rounds :
                      rounds'[id] = [rounds[id] EXCEPT !.status = rounds'[id].status,
                                                      !.revealedAt = rounds'[id].revealedAt]
      ]_vars

\* ---------------------------------------------------------------------------
\* The game page: PlinkoGame and the PlinkoAnimation it renders. The component
\* state is held in call; times are in tenths of a second.
\* ---------------------------------------------------------------------------

\* rounds one page plays, arrow keys it receives, steps of a path
MaxDrops == 2
MaxKeys == 2
PathLength == 2

\* setTimeout(animateStep, 500)
StartDelay == 5
\* setTimeout(animateStep, 300)
StepDelay == 3
\* setTimeout(() => { onAnimationComplete() ... }, 300)
CompleteDelay == 3
\* setTimeout(() => { setShowConfetti(true) ... }, 500)
ConfettiDelay == 5
\* setTimeout(() => { setShowConfetti(false) }, 2000)
ConfettiTime == 20

\* const [dropColumn, setDropColumn] = useState(6) and the other useState calls
PlinkoGameState ==
    [fn |-> "PlinkoGame", dropColumn |-> 6, isLoading |-> FALSE, isAnimating |-> FALSE,
     gameResult |-> 0, showResults |-> FALSE, roundId |-> 0, showConfetti |-> FALSE,
     timers |-> <<>>, drops |-> 0, keys |-> 0,
     completions |-> [r \in 1..MaxDrops |-> 0],
     reveals |-> [r \in 1..MaxDrops |-> 0]]

IsPlinkoGame == call.fn = "PlinkoGame"

\* the dependency list of the animation effect: isAnimating, path, startX, startY,
\* onAnimationComplete (a new callback for every roundId), enableSound (never passed)
AnimationDeps(g) == <<g.isAnimating, g.gameResult, g.dropColumn, g.roundId>>

\* one run of the animation effect: nothing to animate, or a new chain of step timers
\* whose closure holds stepIndex = 0, the path and the onAnimationComplete of this
\* render; the effect returns no cleanup, so the timers already pending stay
AnimationEffect(g) ==
    IF ~g.isAnimating \/ g.gameResult = 0 \/ PathLength = 0
    THEN g
    ELSE [g EXCEPT !.timers = Append(@, [kind |-> "animateStep", delay |-> StartDelay,
                                         stepIndex |-> 0, roundId |-> g.roundId])]

\* a render after a state change: the effect runs when one of its dependencies changed
Render(before, after) ==
    IF AnimationDeps(before) # AnimationDeps(after) THEN AnimationEffect(after) ELSE after

\* the timers that are due, and the one the event loop runs first
DueTimers(g) == {i \in 1..Len(g.timers) : g.timers[i].delay = 0}

FirstDue(g) == CHOOSE i \in DueTimers(g) : \A j \in DueTimers(g) : i <= j

WithoutTimer(timers, i) == SubSeq(timers, 1, i - 1) \o SubSeq(timers, i + 1, Len(timers))

PlinkoGameMount ==
    /\ call.fn = "none"
    /\ call' = PlinkoGameState
    /\ UNCHANGED <<rounds, handlers, sent, started, run>>

\* ArrowLeft / ArrowRight: setDropColumn, whether or not a ball is animating
ArrowKey ==
    /\ IsPlinkoGame
    /\ call.keys < MaxKeys
    /\ \E dropColumn \in {Max(0, call.dropColumn - 1), Min(12, call.dropColumn + 1)} :
           call' = Render(call, [call EXCEPT !.dropColumn = dropColumn, !.keys = @ + 1])
    /\ UNCHANGED <<rounds, handlers, sent, started, run>>

\* handleDropBall up to its first await
HandleDropBall ==
    /\ IsPlinkoGame
    /\ ~call.isLoading /\ ~call.isAnimating
    /\ call.drops < MaxDrops
    /\ call' = Render(call, [call EXCEPT !.isLoading = TRUE, !.gameResult = 0,
                                         !.showResults = FALSE, !.drops = @ + 1])
    /\ UNCHANGED <<rounds, handlers, sent, started, run>>

\* handleDropBall after both requests answered: the round is stored and animated
HandleDropBallStarted ==
    /\ IsPlinkoGame
    /\ call.isLoading
    /\ call' = Render(call, [call EXCEPT !.roundId = call.drops, !.gameResult = call.drops,
                                         !.isAnimating = TRUE, !.isLoading = FALSE])
    /\ UNCHANGED <<rounds, handlers, sent, started, run>>

\* handleDropBall when a request failed: alert, nothing animated
HandleDropBallFailed ==
    /\ IsPlinkoGame
    /\ call.isLoading
    /\ call' = [call EXCEPT !.isLoading = FALSE]
    /\ UNCHANGED <<rounds, handlers, sent, started, run>>

\* a tenth of a second passes with no timer due
Tick ==
    /\ IsPlinkoGame
    /\ Len(call.timers) > 0
    /\ DueTimers(call) = {}
    /\ call' = [call EXCEPT !.timers = [i \in 1..Len(@) |-> [@[i] EXCEPT !.delay = @ - 1]]]
    /\ UNCHANGED <<rounds, handlers, sent, started, run>>

\* animateStep of one chain
AnimateStep ==
    /\ IsPlinkoGame
    /\ DueTimers(call) # {}
    /\ \E i \in {FirstDue(call)} : \E t \in {call.timers[i]} :
           /\ t.kind = "animateStep"
           /\ call' = [call EXCEPT !.timers =
                  IF t.stepIndex >= PathLength
                  THEN Append(WithoutTimer(@, i), [t EXCEPT !.kind = "complete",
                                                            !.delay = CompleteDelay])
                  ELSE Append(WithoutTimer(@, i), [t EXCEPT !.stepIndex = @ + 1,
                                                            !.delay = StepDelay])]
    /\ UNCHANGED <<rounds, handlers, sent, started, run>>

\* handleAnimationComplete of the render whose roundId the callback closed over
handleAnimationComplete(g, roundId) ==
    [g EXCEPT !.isAnimating = FALSE, !.showResults = TRUE,
              !.completions[roundId] = @ + 1,
              !.reveals[roundId] = IF roundId # 0 THEN @ + 1 ELSE @]

\* the timer at the end of a chain: onAnimationComplete(), then the confetti timer
AnimationComplete ==
    /\ IsPlinkoGame
    /\ DueTimers(call) # {}
    /\ \E i \in {FirstDue(call)} : \E t \in {call.timers[i]} :
           /\ t.kind = "complete"
           /\ \E g \in {[call EXCEPT !.timers =
                            Append(WithoutTimer(@, i), [t EXCEPT !.kind = "confettiOn",
                                                                 !.delay = ConfettiDelay])]} :
                  call' = Render(g, handleAnimationComplete(g, t.roundId))
    /\ UNCHANGED <<rounds, handlers, sent, started, run>>

\* setShowConfetti(true), then the timer that hides it
ConfettiOn ==
    /\ IsPlinkoGame
    /\ DueTimers(call) # {}
    /\ \E i \in {FirstDue(call)} : \E t \in {call.timers[i]} :
           /\ t.kind = "confettiOn"
           /\ call' = [call EXCEPT !.showConfetti = TRUE,
                                   !.timers = Append(WithoutTimer(@, i),
                                                     [t EXCEPT !.kind = "confettiOff",
                                                               !.delay = ConfettiTime])]
    /\ UNCHANGED <<rounds, handlers, sent, started, run>>

\* setShowConfetti(false)
ConfettiOff ==
    /\ IsPlinkoGame
    /\ DueTimers(call) # {}
    /\ \E i \in {FirstDue(call)} : \E t \in {call.timers[i]} :
           /\ t.kind = "confettiOff"
           /\ call' = [call EXCEPT !.showConfetti = FALSE, !.timers = WithoutTimer(@, i)]
    /\ UNCHANGED <<rounds, handlers, sent, started, run>>

NextAnimation ==
    \/ PlinkoGameMount
    \/ ArrowKey
    \/ HandleDropBall
    \/ HandleDropBallStarted
    \/ HandleDropBallFailed
    \/ Tick
    \/ AnimateStep
    \/ AnimationComplete
    \/ ConfettiOn
    \/ ConfettiOff

SpecAnimation == Init /\ [][NextAnimation]_vars

\* C35: for one animated round onAnimationComplete is invoked once, and the reveal
\* request is issued once, also when the drop column is changed with the arrow keys
\* while step timers are pending: no round is ever completed or revealed a second time
C35_CompletesOnce ==
    IsPlinkoGame =>
        \A r \in 1..MaxDrops : call.completions[r] <= 1 /\ call.reveals[r] <= 1

\* the Game Result playRound computes for what a started round records
PlayedAgain(round) ==
    PlayRoundValue(round.serverSeed, round.clientSeed, round.nonce, round.dropColumn,
                   round.rows, round.betCents)

\* C36: the combinedSeed the start endpoint stores, computed by generateCombinedSeed,
\* is the combinedSeed inside the Game Result that playRound computes on its own for
\* the round's serverSeed, clientSeed and nonce, and the stored peg map hash is the
\* one that seed yields
C36_StoredSeedIsPlayedSeed ==
    \A id \in DOMAIN rounds :
        rounds[id].status \in {"STARTED", "REVEALED"} =>
            /\ ~Has(PlayedAgain(rounds[id]), "thrown")
            /\ rounds[id].combinedSeed = PlayedAgain(rounds[id]).combinedSeed
            /\ rounds[id].pegMapHash = PlayedAgain(rounds[id]).pegMapHash

\* a round started by two requests, the second with another client seed, that is
\* then revealed: its record still holds the seed of the game it records
C36_Witness ==
    \E id \in DOMAIN rounds :
        /\ rounds[id].status = "REVEALED"
        /\ started[id] = 2
        /\ rounds[id].clientSeed = ClientSeedB
        /\ Len(rounds[id].combinedSeed) = 64
        /\ rounds[id].combinedSeed = PlayedAgain(rounds[id]).combinedSeed
====
